---- MODULE Spec2Model ----
\* Model of aws-codebuild-run-build: run() (index.js), build(),
\* setupSignalHandlers(), waitForBuildEndTime() and logName() (code-build.js),
\* together with the remote services they talk to (CodeBuild, CloudWatch Logs).
EXTENDS Integers, Sequences, FiniteSets, TLC

\* ---------------------------------------------------------------- bounds
\* Largest number of events one getLogEvents reply carries.
MaxBatch == 2
\* Runs without signals: number of events the log stream can ever hold,
\* number of batchGetBuilds calls after which the run stops polling, number of
\* "Rate exceeded" failures the services produce.
MaxLog == 2
MaxFetches == 4
MaxThrottle == 2
\* Runs with signals: number of signal deliveries, and the same three limits.
MaxSignals == 2
SigMaxLog == 1
SigMaxFetches == 2
SigMaxThrottle == 1
\* Runs with the larger back-off base: the same three limits.
BoMaxLog == 1
BoMaxFetches == 3
BoMaxThrottle == 2
\* Runs under fair scheduling: the same three limits.
LiveMaxLog == 1
LiveMaxFetches == 2
LiveMaxThrottle == 1

\* ------------------------------------------------------- program inputs
\* update-interval and update-back-off as passed to build() (time units).
UpdateInterval == 2
UpdateBackOff == 1
\* A larger update-back-off, for the runs that look at the back-off waits.
SteepBackOff == 3

Signals == {"SIGINT", "SIGTERM"}
\* stop-on-signals after split/trim/filter: a list, repeated names are kept.
SignalLists ==
  {<<>>, <<"SIGINT">>, <<"SIGINT", "SIGTERM">>, <<"SIGINT", "SIGINT">>}

BuildIds == {"build:1"}
TerminalStatuses == {"SUCCEEDED", "FAILED", "FAULT", "TIMED_OUT", "STOPPED"}
\* The statuses a build ends with by itself in the runs with signals.
SigStatuses == {"SUCCEEDED", "FAILED"}

\* An absent JavaScript value is the empty tuple, a present one is <<v>>.
Undefined == <<>>
Some(v) == <<v>>

\* ------------------------------------------------------------- messages
\* A log message is a sequence of characters.
IsSpace(c) == c \in {" ", "\t", "\r", "\n"}

\* String.prototype.trimEnd
RECURSIVE trimEnd(_)
trimEnd(m) ==
  IF m = <<>> THEN <<>>
  ELSE IF IsSpace(m[Len(m)]) THEN trimEnd(SubSeq(m, 1, Len(m) - 1))
  ELSE m

\* Line endings and padding a CloudWatch log message can end with.
Endings == << <<"\n">>, <<" ", "\r", "\n">>, <<>> >>

\* The i-th event the build writes to its log stream (i = 1, 2, ...).
LogEvent(i) ==
  (IF i % 2 = 0 THEN <<" ">> ELSE <<>>) \o <<ToString(i)>>
    \o Endings[(i % 3) + 1]

\* ---------------------------------------------------------------- ARNs
\* An ARN is a sequence of text pieces; the two delimiters are pieces.
LG == ":log-group:"
LS == ":log-stream:"
NullArn == <<"arn:aws:logs:r:1", LG, "null", LS, "null">>
LogArn == <<"arn:aws:logs:r:1", LG, "/aws/codebuild/G", LS, "S">>
Arns == {NullArn, LogArn}

\* Index of the last piece of s equal to d, 0 when there is none.
RECURSIVE LastIndexOf(_, _)
LastIndexOf(s, d) ==
  IF s = <<>> THEN 0
  ELSE IF s[Len(s)] = d THEN Len(s)
  ELSE LastIndexOf(SubSeq(s, 1, Len(s) - 1), d)

\* Index of the first piece of s equal to d, 0 when there is none.
RECURSIVE FirstIndexOf(_, _, _)
FirstIndexOf(s, d, i) ==
  IF i > Len(s) THEN 0
  ELSE IF s[i] = d THEN i
  ELSE FirstIndexOf(s, d, i + 1)

\* Arn.split(":log-group:").pop()
AfterLastGroup(Arn) == SubSeq(Arn, LastIndexOf(Arn, LG) + 1, Len(Arn))

\* The first two elements of tail.split(":log-stream:").
StreamSplit(tail) ==
  LET i == FirstIndexOf(tail, LS, 1)
      rest == SubSeq(tail, i + 1, Len(tail))
      j == FirstIndexOf(rest, LS, 1)
  IN  IF i = 0 THEN <<Some(tail), Undefined>>
      ELSE <<Some(SubSeq(tail, 1, i - 1)),
             Some(IF j = 0 THEN rest ELSE SubSeq(rest, 1, j - 1))>>

\* An ARN without ":log-group:" or without ":log-stream:" after it is
\* rejected.
logNameStrict(Arn) ==
  LET none == [logGroupName |-> Undefined, logStreamName |-> Undefined]
      parts == StreamSplit(AfterLastGroup(Arn))
  IN  IF Arn = <<>> THEN none
      ELSE IF LastIndexOf(Arn, LG) = 0 \/ parts[2] = Undefined
      THEN [error |-> "InvalidFormat"]
      ELSE IF parts[1] # Some(<<"null">>) /\ parts[2] # Some(<<"null">>)
      THEN [logGroupName |-> parts[1], logStreamName |-> parts[2]]
      ELSE none

\* Each field is undefined exactly when its own segment is "null".
logNameFieldwise(Arn) ==
  LET parts == StreamSplit(AfterLastGroup(Arn))
      Name(v) == IF v = Some(<<"null">>) THEN Undefined ELSE v
  IN  IF Arn = <<>>
      THEN [logGroupName |-> Undefined, logStreamName |-> Undefined]
      ELSE [logGroupName |-> Name(parts[1]), logStreamName |-> Name(parts[2])]

logName(Arn) ==
  LET none == [logGroupName |-> Undefined, logStreamName |-> Undefined]
  IN  IF Arn = <<>> THEN none
      ELSE LET parts == StreamSplit(AfterLastGroup(Arn))
           IN  IF parts[1] # Some(<<"null">>) /\ parts[2] # Some(<<"null">>)
               THEN [logGroupName |-> parts[1], logStreamName |-> parts[2]]
               ELSE none

\* JavaScript truthiness of an optional string.
Truthy(v) == v # Undefined /\ v[1] # <<>>

\* ---------------------------------------------------------------- state
VARIABLES
  \* inputs of the run (githubInputs), fixed for the run
  cfgHide,          \* config.hideCloudWatchLogs
  stopOnSignals,    \* config.stopOnSignals
  updateBackOff,    \* config.updateBackOff
  \* control
  pc,               \* where run()/build()/waitForBuildEndTime is suspended
  handlers,         \* process.on registrations: sequence of [sig, id]
  \* parameters of the current waitForBuildEndTime invocation
  id, logs, updateInterval, hideCloudWatchLogs,
  seqEmptyLogs, totalEvents, throttleCount, nextToken,
  \* the two fetches of the current invocation and what they delivered
  statusReq, logReq, batch, cloudWatch,
  staleStatus, staleLog,  \* fetches still outstanding of abandoned invocations
  waitMs,           \* duration of the timer the loop is sleeping on
  \* outcome
  result,           \* build returned by waitForBuildEndTime
  errObject,        \* the error Promise.all rejected with, NoError: none
  thrown,           \* error thrown to run()
  out,              \* lines written by console.log in the loop
  awsBuildId,       \* core.setOutput("aws-build-id", ...)
  failed,           \* core.setFailed(message)
  banner,           \* "*****CODEBUILD COMPLETE*****" printed
  \* remote services
  remote,           \* the build as CodeBuild last reported it: id, status, ARN
  stopReqs,         \* stopBuild requests received, in order
  stopPending,      \* stopBuild calls not yet settled
  errorsLogged,     \* core.error calls of the signal handlers
  \* observation of the run
  startCalls, statusFetches, logFetches, reqToken, hist,
  signalLog,        \* [count, last]: signals delivered so far, the last one
  rateFailures, discarded, ref,
  waited,           \* time slept since a status reply first had an end time
  \* githubInputs() and inputs2Parameters()
  getInput,         \* core.getInput: action input name -> value ("" if unset)
  env,              \* process.env: sequence of [name, value], names distinct
  context,          \* github.context: owner, repo, pull request head sha
  entry,            \* the exported function the caller entered
  inputs,           \* the inputs object (githubInputs' result or the
                    \* caller's argument of inputs2Parameters)
  params,           \* the start-build request inputs2Parameters returned
  ppc,              \* "off", "init", "inputs", "params", "failed"
  limit,            \* the limits of this run: [log, fetches, throttles, statuses]
  arnArg,           \* the argument of a direct call of logName
  names,            \* what that call returned, <<>> before it returns
  again,            \* what a second call of inputs2Parameters returned
  gitUrl,           \* local.js: the URL `git remote -v` lists for the remote
  argv,             \* local.js: the options yargs parsed
  branch            \* local.js: the temporary branch, "none", "pushed" or
                    \* "deleted"

paramVars == <<getInput, env, context, entry, inputs, params, ppc, again>>
nameVars == <<arnArg, names>>
localVars == <<gitUrl, argv>>
cfgVars ==
  <<cfgHide, stopOnSignals, updateBackOff, limit, paramVars, nameVars,
    localVars>>
loopVars ==
  <<id, logs, updateInterval, hideCloudWatchLogs, seqEmptyLogs, totalEvents,
    throttleCount, nextToken>>
fetchVars ==
  <<statusReq, logReq, batch, cloudWatch, errObject, staleStatus, staleLog>>
outcomeVars == <<result, thrown, out, awsBuildId, failed, banner, branch>>
remoteVars == <<remote>>
stopVars == <<stopReqs, stopPending, errorsLogged>>
obsVars ==
  <<startCalls, statusFetches, logFetches, reqToken, hist, rateFailures,
    discarded, ref>>
vars ==
  <<cfgVars, pc, handlers, loopVars, fetchVars, waitMs, outcomeVars,
    remoteVars, stopVars, obsVars, signalLog, waited>>

NoBuild == [id |-> "", endTime |-> FALSE, buildStatus |-> "", logs |-> <<>>]
NoRemote == [id |-> "", buildStatus |-> "NONE", logs |-> <<>>]

\* Errors of the SDK calls: a rate-limit error and another service error.
\* Error objects of the SDK calls: each failing call produces its own object.
RateError(call) == [message |-> "Rate exceeded", call |-> call]
OtherError(call) == [message |-> "Some AWS error", call |-> call]
StartError == [message |-> "Project cannot be found", call |-> "startBuild"]
NoError == [message |-> "", call |-> ""]
FetchErrors(call) == {RateError(call), OtherError(call)}

\* errObject.message.search("Rate exceeded") !== -1
IsRateLimit(err) == err.message = "Rate exceeded"

\* The run of the loop that never sees a rate-limit failure (for comparison).
\* What the successful polls of the run delivered: their number, the poll at
\* which an end time was first reported (0: none yet), the poll at which the
\* first event was received (0: none yet), the number of empty log batches at
\* the end of the sequence, and all events received, in order.
NoHist ==
  [polls |-> 0, firstEnd |-> 0, firstData |-> 0, emptyRun |-> 0,
   received |-> <<>>]
Record(h, current, events) ==
  [polls |-> h.polls + 1,
   firstData |-> IF h.firstData = 0 /\ events # <<>> THEN h.polls + 1
                 ELSE h.firstData,
   firstEnd |-> IF h.firstEnd = 0 /\ current.endTime THEN h.polls + 1
                ELSE h.firstEnd,
   emptyRun |-> IF events = <<>> THEN h.emptyRun + 1 ELSE 0,
   received |-> h.received \o events]

RefInit == [seq |-> 0, total |-> 0, out |-> <<>>, done |-> FALSE,
            result |-> NoBuild]

Start ==
  /\ pc = "init"
  /\ handlers = <<>>
  /\ id = "" /\ logs = <<>>
  /\ updateInterval = UpdateInterval
  /\ hideCloudWatchLogs = cfgHide
  /\ seqEmptyLogs = 0 /\ totalEvents = 0 /\ throttleCount = 0
  /\ nextToken = Undefined
  /\ statusReq = "none" /\ logReq = "none"
  /\ batch = Undefined /\ cloudWatch = Undefined /\ errObject = NoError
  /\ staleStatus = 0 /\ staleLog = 0
  /\ waitMs = 0
  /\ result = NoBuild /\ thrown = NoError
  /\ out = <<>>
  /\ awsBuildId = "" /\ failed = Undefined /\ banner = FALSE
  /\ branch = "none"
  /\ remote = NoRemote
  /\ stopReqs = <<>> /\ stopPending = 0 /\ errorsLogged = 0
  /\ startCalls = 0 /\ statusFetches = 0 /\ logFetches = 0
  /\ reqToken = Undefined /\ hist = NoHist
  /\ signalLog = [count |-> 0, last |-> ""]
  /\ rateFailures = 0 /\ discarded = {} /\ ref = RefInit
  /\ waited = 0

\* logName is called by the polling loop only.
NoLogName == arnArg = [kind |-> "absent"] /\ names = <<>>

\* The run is not one of the command line tool.
NoLocal == gitUrl = Undefined /\ argv = <<>>

\* The start-build request is taken as given: the run begins at build().
ParamsGiven ==
  /\ getInput = <<>> /\ env = <<>> /\ context = <<>> /\ entry = "build"
  /\ inputs = <<>> /\ params = <<>> /\ ppc = "off" /\ again = Undefined
  /\ NoLogName /\ NoLocal

\* A run in which no signal is delivered.
Init ==
  /\ ParamsGiven
  /\ cfgHide \in BOOLEAN
  /\ stopOnSignals = <<"SIGINT">>
  /\ updateBackOff = UpdateBackOff
  /\ limit = [log |-> MaxLog, fetches |-> MaxFetches,
              throttles |-> MaxThrottle, statuses |-> TerminalStatuses]
  /\ Start

\* A run in which signals are delivered.
SigInit ==
  /\ ParamsGiven
  /\ cfgHide = FALSE
  /\ stopOnSignals \in SignalLists
  /\ updateBackOff = UpdateBackOff
  /\ limit = [log |-> SigMaxLog, fetches |-> SigMaxFetches,
              throttles |-> SigMaxThrottle, statuses |-> SigStatuses]
  /\ Start

\* A run with the larger back-off base, or with update-back-off: 0, in which
\* no signal is delivered.
BackOffInit ==
  /\ ParamsGiven
  /\ cfgHide = FALSE
  /\ stopOnSignals = <<"SIGINT">>
  /\ updateBackOff \in {0, SteepBackOff}
  /\ limit = [log |-> BoMaxLog, fetches |-> BoMaxFetches,
              throttles |-> BoMaxThrottle, statuses |-> {"SUCCEEDED"}]
  /\ Start

\* -------------------------------------------------------------- helpers
Min(a, b) == IF a < b THEN a ELSE b

RECURSIVE Pow2(_)
Pow2(n) == IF n = 0 THEN 1 ELSE 2 * Pow2(n - 1)

\* The messages are printed as received.
EmitUntrimmed(lines, events) == lines \o events

\* events.forEach(({ message }) => console.log(message.trimEnd()))
Emit(lines, events) == lines \o [i \in 1..Len(events) |-> trimEnd(events[i])]

\* The handlers process.on has registered for signal s, in order.
HandlersFor(s) == SelectSeq(handlers, LAMBDA h : h.sig = s)

\* ------------------------------------------------- waitForBuildEndTime
\* Entry of waitForBuildEndTime up to the await of Promise.all: the status
\* fetch is always issued, the log fetch only when logs are not hidden and
\* the ARN names a log group.
LogWanted(hide, arn) == ~hide /\ Truthy(logName(arn).logGroupName)

IssueFetches(hide, arn, token) ==
  /\ statusFetches < limit.fetches
  /\ statusReq' = "pending"
  /\ statusFetches' = statusFetches + 1
  /\ logReq' = IF LogWanted(hide, arn) THEN "pending" ELSE "skipped"
  /\ logFetches' = IF LogWanted(hide, arn) THEN logFetches + 1 ELSE logFetches
  /\ reqToken' = IF LogWanted(hide, arn) THEN token ELSE reqToken
  /\ batch' = Undefined
  /\ cloudWatch' = Undefined
  /\ errObject' = NoError
  /\ UNCHANGED <<staleStatus, staleLog>>
  /\ pc' = "await"

\* Empty replies are counted only once an event has been received.
NextSeqEmptyLogsAfterData(seq, total, events, current) ==
  IF Len(events) = 0 /\ total > 0 THEN seq + 1 ELSE 0

\* Empty replies are counted only once the build has ended.
NextSeqEmptyLogsAfterEnd(seq, total, events, current) ==
  IF Len(events) = 0 /\ current.endTime THEN seq + 1 ELSE 0

\* The count starts again after the first empty reply.
NextSeqEmptyLogsRestart(seq, total, events, current) ==
  IF Len(events) = 0 /\ (total > 0 \/ current.endTime) /\ seq = 0 THEN 1
  ELSE 0

\* Quiescence accounting (code-build.js 148-153).
\* A non-empty batch leaves the count as it is.
NextSeqEmptyLogsNoReset(seq, total, events, current) ==
  IF Len(events) = 0 /\ (total > 0 \/ current.endTime) THEN seq + 1
  ELSE IF Len(events) = 0 THEN 0 ELSE seq

NextSeqEmptyLogs(seq, total, events, current) ==
  IF Len(events) = 0 /\ (total > 0 \/ current.endTime) THEN seq + 1 ELSE 0

\* The termination test is satisfied by one empty reply.
FinishedAtFirstEmpty(current, seq) == current.endTime /\ seq >= 1

\* The termination test with "or" in place of "and".
FinishedEither(current, seq) == current.endTime \/ seq >= 2

\* Termination test (code-build.js 162).
Finished(current, seq) == current.endTime /\ seq >= 2

\* The delay is halved whenever the build has ended.
SleepTimeHalfWhenEnded(current, throttles, interval) ==
  IF current.endTime THEN interval \div 2 ELSE interval

\* Delay before the next poll (code-build.js 168-175).
SleepTime(current, throttles, interval) ==
  IF current.endTime /\ throttles = 0 THEN interval \div 2 ELSE interval

\* The loop of a run that is never rate limited, fed the same replies.
RefStep(r, current, events) ==
  IF r.done THEN r
  ELSE LET ev == IF cfgHide THEN <<>> ELSE events
           seq == NextSeqEmptyLogs(r.seq, r.total, ev, current)
       IN  [seq |-> seq, total |-> r.total + Len(ev), out |-> Emit(r.out, ev),
            done |-> Finished(current, seq),
            result |-> IF Finished(current, seq) THEN current ELSE NoBuild]

\* run()'s continuation when runBuild resolved (index.js 38-39, 43-44).
RunReturned(current) ==
  /\ awsBuildId' = current.id
  /\ banner' = TRUE
  /\ branch' = branch

\* The command line tool's continuation when build() resolved (local.js 105).
LocalThen ==
  /\ branch' = "deleted"
  /\ UNCHANGED <<awsBuildId, banner>>

\* build() resolved: the continuation of its caller.
Returned(current) ==
  IF entry = "local" THEN LocalThen ELSE RunReturned(current)

\* Both fetches are fulfilled: the rest of the function up to the return or
\* the sleep (code-build.js 141-175), and run()'s continuation on return.
Resume(current, cw) ==
  LET events == cw.events
      seq == NextSeqEmptyLogs(seqEmptyLogs, totalEvents, events, current)
  IN  /\ seqEmptyLogs' = seq
      /\ totalEvents' = totalEvents + Len(events)
      /\ out' = Emit(out, events)
      /\ hist' = Record(hist, current, events)
      /\ ref' = RefStep(ref, current, events)
      /\ IF Finished(current, seq)
         THEN /\ pc' = "returned"
              /\ result' = current
              /\ Returned(current)
              /\ waitMs' = waitMs
         ELSE /\ pc' = "sleep"
              /\ waitMs' = SleepTime(current, throttleCount, updateInterval)
              /\ UNCHANGED <<result, awsBuildId, banner, branch>>
      /\ UNCHANGED <<id, logs, updateInterval, hideCloudWatchLogs,
                     throttleCount, nextToken, thrown, failed>>

\* const { nextForwardToken, events = [] } = cloudWatch, with cloudWatch = {}
\* when the log fetch was not made.
EmptyReply == [events |-> <<>>, nextForwardToken |-> Undefined]

\* Promise.all rejected with err: the catch and the error branch
\* (code-build.js 102-139), and run()'s catch when the error is thrown.
\* A new error carrying the message is thrown in place of the caught object.
ThrownCopy(err) == [message |-> err.message, call |-> "waitForBuildEndTime"]

\* throw errObject
Thrown(err) == err

\* The values of Math.floor(Math.random() * (updateBackOff * 2 **
\* throttleCount)) (code-build.js 116-118): Math.random() is in [0, 1), so
\* the product with 0 is 0.
jitteredBackOff(backOff, throttles) ==
  IF backOff * Pow2(throttles) = 0 THEN {0}
  ELSE 0..(backOff * Pow2(throttles) - 1)

\* The error is caught without marking the run as failed.
RunCatchSilent(err) ==
  /\ pc' = "thrown"
  /\ thrown' = err
  /\ failed' = failed
  /\ banner' = TRUE
  /\ branch' = branch

\* run()'s catch and finally for an error thrown by runBuild (index.js 40-44).
RunCatch(err) ==
  /\ pc' = "thrown"
  /\ thrown' = err
  /\ failed' = Some(err.message)
  /\ banner' = TRUE
  /\ branch' = branch

\* The command line tool's catch for a rejected build(): the branch is
\* deleted and the error is thrown again (local.js 106-109).
LocalCatch(err) ==
  /\ pc' = "thrown"
  /\ thrown' = err
  /\ branch' = "deleted"
  /\ UNCHANGED <<failed, banner>>

\* build() rejected with err: the catch of its caller.
Caught(err) == IF entry = "local" THEN LocalCatch(err) ELSE RunCatch(err)

\* The second rate-limit failure of a run is thrown.
HandleErrorOnce(err) ==
  /\ errObject' = err
  /\ IF IsRateLimit(err) /\ throttleCount = 0
     THEN \E j \in jitteredBackOff(updateBackOff, throttleCount) :
            /\ waitMs' = updateInterval + j
            /\ throttleCount' = throttleCount + 1
            /\ pc' = "backoff"
            /\ UNCHANGED <<thrown, failed, banner, branch>>
     ELSE /\ Caught(Thrown(err))
          /\ UNCHANGED <<waitMs, throttleCount>>
  /\ UNCHANGED <<id, logs, updateInterval, hideCloudWatchLogs, seqEmptyLogs,
                 totalEvents, nextToken, result, out, awsBuildId, hist, ref>>

HandleError(err) ==
  /\ errObject' = err
  /\ IF IsRateLimit(err)
     THEN \E j \in jitteredBackOff(updateBackOff, throttleCount) :
            /\ waitMs' = updateInterval + j
            /\ throttleCount' = throttleCount + 1
            /\ pc' = "backoff"
            /\ UNCHANGED <<thrown, failed, banner, branch>>
     ELSE /\ Caught(Thrown(err))
          /\ UNCHANGED <<waitMs, throttleCount>>
  /\ UNCHANGED <<id, logs, updateInterval, hideCloudWatchLogs, seqEmptyLogs,
                 totalEvents, nextToken, result, out, awsBuildId, hist, ref>>

\* The replies batchGetBuilds can give for the polled build: a build that was
\* reported as ended stays as it is, a log stream that exists keeps existing.
StatusReplies ==
  {[id |-> id, endTime |-> st \in TerminalStatuses, buildStatus |-> st,
    logs |-> arn] :
     st \in (IF remote.buildStatus = "IN_PROGRESS"
             THEN {"IN_PROGRESS"} \cup limit.statuses
             ELSE {remote.buildStatus}),
     arn \in (IF remote.logs = NullArn THEN Arns ELSE {remote.logs})}

\* The replies getLogEvents can give: up to MaxBatch of the events that
\* follow the cursor of the request, and the cursor after them.
Cursor == IF reqToken = Undefined THEN 0 ELSE reqToken[1]
LogReplies ==
  {[events |-> [i \in 1..n |-> LogEvent(Cursor + i)],
    nextForwardToken |-> Some(Cursor + n)] :
     n \in 0..Min(MaxBatch, limit.log - Cursor)}

\* The status reply is processed without waiting for the log fetch.
StatusFulfilEager ==
  /\ pc = "await" /\ statusReq = "pending"
  /\ \E current \in StatusReplies :
       /\ statusReq' = "done"
       /\ batch' = Some(current)
       /\ remote' = [remote EXCEPT !.buildStatus = current.buildStatus,
                                   !.logs = current.logs]
       /\ Resume(current,
                 IF logReq = "done" THEN cloudWatch[1] ELSE EmptyReply)
  /\ UNCHANGED <<cfgVars, handlers, logReq, cloudWatch,
                 errObject, staleStatus, staleLog, stopVars, startCalls,
                 statusFetches, logFetches, reqToken, rateFailures, discarded,
                 signalLog>>
  /\ UNCHANGED waited

\* batchGetBuilds is fulfilled; when the log fetch is settled as well,
\* Promise.all is fulfilled and the function goes on (code-build.js 91-101).
StatusFulfil ==
  /\ pc = "await" /\ statusReq = "pending"
  /\ \E current \in StatusReplies :
       /\ statusReq' = "done"
       /\ batch' = Some(current)
       /\ remote' = [remote EXCEPT !.buildStatus = current.buildStatus,
                                   !.logs = current.logs]
       /\ IF logReq = "pending"
          THEN UNCHANGED <<pc, loopVars, outcomeVars, waitMs, hist, ref>>
          ELSE Resume(current,
                      IF logReq = "done" THEN cloudWatch[1] ELSE EmptyReply)
  /\ UNCHANGED <<cfgVars, handlers, logReq, cloudWatch,
                 errObject, staleStatus, staleLog, stopVars, startCalls,
                 statusFetches, logFetches, reqToken, rateFailures, discarded,
                 signalLog>>
  /\ UNCHANGED waited

LogFulfil ==
  /\ pc = "await" /\ logReq = "pending"
  /\ \E cw \in LogReplies :
       /\ logReq' = "done"
       /\ cloudWatch' = Some(cw)
       /\ IF statusReq = "pending"
          THEN UNCHANGED <<pc, loopVars, outcomeVars, waitMs, hist, ref>>
          ELSE Resume(batch[1], cw)
  /\ UNCHANGED <<cfgVars, handlers, statusReq, batch,
                 errObject, staleStatus, staleLog, remoteVars, stopVars,
                 startCalls, statusFetches, logFetches, reqToken, rateFailures,
                 discarded, signalLog>>
  /\ UNCHANGED waited

StatusReject ==
  /\ pc = "await" /\ statusReq = "pending"
  /\ \E err \in FetchErrors("batchGetBuilds") :
       /\ IsRateLimit(err) => rateFailures < limit.throttles
       /\ rateFailures' = rateFailures + (IF IsRateLimit(err) THEN 1 ELSE 0)
       /\ HandleError(err)
  /\ statusReq' = "failed"
  /\ logReq' = IF logReq = "pending" THEN "abandoned" ELSE logReq
  /\ staleLog' = staleLog + (IF logReq = "pending" THEN 1 ELSE 0)
  /\ UNCHANGED <<cfgVars, handlers, batch, cloudWatch,
                 staleStatus, remoteVars, stopVars, startCalls,
                 statusFetches, logFetches, reqToken, discarded, signalLog>>
  /\ UNCHANGED waited

LogReject ==
  /\ pc = "await" /\ logReq = "pending"
  /\ \E err \in FetchErrors("getLogEvents") :
       /\ IsRateLimit(err) => rateFailures < limit.throttles
       /\ rateFailures' = rateFailures + (IF IsRateLimit(err) THEN 1 ELSE 0)
       /\ HandleError(err)
  /\ logReq' = "failed"
  /\ statusReq' = IF statusReq = "pending" THEN "abandoned" ELSE statusReq
  /\ staleStatus' = staleStatus + (IF statusReq = "pending" THEN 1 ELSE 0)
  /\ UNCHANGED <<cfgVars, handlers, batch, cloudWatch,
                 staleLog, remoteVars, stopVars, startCalls, statusFetches,
                 logFetches, reqToken, discarded, signalLog>>
  /\ UNCHANGED waited

\* The effect of an ignored outcome: only the observation of the run changes.
Ignored(call) ==
  \/ UNCHANGED <<discarded, rateFailures>>
  \/ /\ discarded' = discarded \cup {OtherError(call)}
     /\ UNCHANGED rateFailures
  \/ /\ rateFailures < limit.throttles
     /\ rateFailures' = rateFailures + 1
     /\ UNCHANGED discarded

\* An error of a fetch that Promise.all no longer waits for aborts the loop
\* when it is not a rate-limit error.
StaleSettleAborts ==
  /\ \E call \in {"batchGetBuilds", "getLogEvents"} :
       /\ IF call = "batchGetBuilds"
          THEN /\ staleStatus > 0
               /\ staleStatus' = staleStatus - 1
               /\ staleLog' = staleLog
          ELSE /\ staleLog > 0
               /\ staleLog' = staleLog - 1
               /\ staleStatus' = staleStatus
       /\ \/ UNCHANGED <<discarded, pc, thrown>>
          \/ /\ discarded' = discarded \cup {OtherError(call)}
             /\ pc' = "thrown"
             /\ thrown' = OtherError(call)
  /\ UNCHANGED <<cfgVars, handlers, loopVars, rateFailures,
                 statusReq, logReq, batch, cloudWatch, errObject, waitMs,
                 result, out, awsBuildId, failed, banner, branch,
                 remoteVars, stopVars, startCalls, statusFetches,
                 logFetches, reqToken, hist, ref, signalLog>>
  /\ UNCHANGED waited

\* A fetch of an invocation that Promise.all already rejected settles: a
\* reply is ignored, an error is ignored as well (Promise.all reports only
\* the first rejection).
StaleSettle ==
  /\ \/ /\ staleStatus > 0
        /\ staleStatus' = staleStatus - 1
        /\ staleLog' = staleLog
        /\ Ignored("batchGetBuilds")
     \/ /\ staleLog > 0
        /\ staleLog' = staleLog - 1
        /\ staleStatus' = staleStatus
        /\ Ignored("getLogEvents")
  /\ UNCHANGED <<cfgVars, pc, handlers, loopVars,
                 statusReq, logReq, batch, cloudWatch, errObject, waitMs,
                 outcomeVars, remoteVars, stopVars, startCalls, statusFetches,
                 logFetches, reqToken, hist, ref, signalLog>>
  /\ UNCHANGED waited

\* The arguments of the recursive call after a successful poll
\* (code-build.js 178-186).
Again ==
  [id |-> batch[1].id, logs |-> batch[1].logs,
   updateInterval |-> updateInterval,
   hideCloudWatchLogs |-> hideCloudWatchLogs,
   seqEmptyLogs |-> seqEmptyLogs, totalEvents |-> totalEvents,
   throttleCount |-> throttleCount,
   nextToken |-> IF logReq = "done" THEN cloudWatch[1].nextForwardToken
                 ELSE Undefined]

\* The retry goes on after the batch the failed invocation had fetched.
RetryAfterBatch ==
  [id |-> id, logs |-> logs,
   updateInterval |-> waitMs,
   hideCloudWatchLogs |-> FALSE,
   seqEmptyLogs |-> seqEmptyLogs, totalEvents |-> totalEvents,
   throttleCount |-> throttleCount,
   nextToken |-> IF logReq = "done" THEN cloudWatch[1].nextForwardToken
                 ELSE nextToken]

\* The retry starts reading the log stream from its head again.
RetryFromHead ==
  [id |-> id, logs |-> logs,
   updateInterval |-> waitMs,
   hideCloudWatchLogs |-> FALSE,
   seqEmptyLogs |-> seqEmptyLogs, totalEvents |-> totalEvents,
   throttleCount |-> throttleCount,
   nextToken |-> Undefined]

\* The retry keeps the interval it was called with.
RetrySameInterval ==
  [id |-> id, logs |-> logs,
   updateInterval |-> updateInterval,
   hideCloudWatchLogs |-> FALSE,
   seqEmptyLogs |-> seqEmptyLogs, totalEvents |-> totalEvents,
   throttleCount |-> throttleCount,
   nextToken |-> nextToken]

\* The arguments of the recursive call after a rate-limit failure
\* (code-build.js 126-134): the config literal has no hideCloudWatchLogs, so
\* the callee reads undefined, which is falsy.
Retry ==
  [id |-> id, logs |-> logs,
   updateInterval |-> waitMs,
   hideCloudWatchLogs |-> FALSE,
   seqEmptyLogs |-> seqEmptyLogs, totalEvents |-> totalEvents,
   throttleCount |-> throttleCount,
   nextToken |-> nextToken]

\* waitForBuildEndTime is entered with arguments a.
Invoke(a) ==
  /\ id' = a.id
  /\ logs' = a.logs
  /\ updateInterval' = a.updateInterval
  /\ hideCloudWatchLogs' = a.hideCloudWatchLogs
  /\ seqEmptyLogs' = a.seqEmptyLogs
  /\ totalEvents' = a.totalEvents
  /\ throttleCount' = a.throttleCount
  /\ nextToken' = a.nextToken
  /\ IssueFetches(a.hideCloudWatchLogs, a.logs, a.nextToken)

\* The sleep after a successful poll ends.
SleepDone ==
  /\ pc = "sleep"
  /\ Invoke(Again)
  /\ UNCHANGED <<cfgVars, handlers, waitMs, outcomeVars,
                 remoteVars, stopVars, startCalls, hist, rateFailures,
                 discarded, ref, signalLog>>
  /\ waited' = waited + (IF hist.firstEnd > 0 THEN waitMs ELSE 0)

\* The back-off sleep ends.
BackOffDone ==
  /\ pc = "backoff"
  /\ Invoke(Retry)
  /\ UNCHANGED <<cfgVars, handlers, waitMs, outcomeVars,
                 remoteVars, stopVars, startCalls, hist, rateFailures,
                 discarded, ref, signalLog>>
  /\ waited' = waited + (IF hist.firstEnd > 0 THEN waitMs ELSE 0)

\* ------------------------------------------------------- run() / build()
\* run() -> runBuild() -> build(): the startBuild call is issued.
Run ==
  /\ pc = "init"
  /\ ppc \in {"off", "params"}
  /\ pc' = "starting"
  /\ startCalls' = startCalls + 1
  /\ UNCHANGED <<cfgVars, handlers, loopVars, fetchVars,
                 waitMs, outcomeVars, remoteVars, stopVars, statusFetches,
                 logFetches, reqToken, hist, rateFailures, discarded, ref,
                 signalLog>>
  /\ UNCHANGED waited

\* SIGINT is handled when no signal is listed.
setupDefaultHandler(bid, signals) ==
  handlers \o
    (IF signals = <<>> THEN <<[sig |-> "SIGINT", id |-> bid]>>
     ELSE [i \in 1..Len(signals) |-> [sig |-> signals[i], id |-> bid]])

\* A handler is installed for the first listed signal only.
setupFirstSignalOnly(bid, signals) ==
  handlers \o
    (IF signals = <<>> THEN <<>> ELSE <<[sig |-> signals[1], id |-> bid]>>)

\* signals.forEach((s) => process.on(s, ...)) for the started build.
setupSignalHandlers(bid, signals) ==
  handlers \o [i \in 1..Len(signals) |-> [sig |-> signals[i], id |-> bid]]

\* The config the command line tool passes to build() has no stopOnSignals
\* (local.js 96-99); runBuild's config has one (code-build.js 26-36).
HasStopOnSignals == entry # "local"

\* signals.forEach(...) with signals undefined (code-build.js 55).
SetupError ==
  [message |-> "Cannot read properties of undefined (reading 'forEach')",
   call |-> "setupSignalHandlers"]

\* The first invocation of waitForBuildEndTime is entered without the
\* handlers having been installed.
StartBuildFulfilNoHandlers ==
  /\ pc = "starting"
  /\ \E bid \in BuildIds, arn \in Arns :
       /\ remote' = [id |-> bid, buildStatus |-> "IN_PROGRESS", logs |-> arn]
       /\ Invoke([id |-> bid, logs |-> arn,
                  updateInterval |-> UpdateInterval,
                  hideCloudWatchLogs |-> cfgHide,
                  seqEmptyLogs |-> 0, totalEvents |-> 0,
                  throttleCount |-> 0, nextToken |-> Undefined])
  /\ UNCHANGED <<cfgVars, handlers, waitMs, outcomeVars, stopVars,
                 startCalls, hist, rateFailures, discarded, ref, signalLog>>
  /\ UNCHANGED waited

\* startBuild resolves: the handlers are installed and the first invocation
\* of waitForBuildEndTime issues its fetches (code-build.js 46-52). When
\* config.stopOnSignals is undefined setupSignalHandlers throws, so build()
\* rejects and the catch of its caller runs before anything else.
StartBuildFulfil ==
  /\ pc = "starting"
  /\ \E bid \in BuildIds, arn \in Arns :
       /\ remote' = [id |-> bid, buildStatus |-> "IN_PROGRESS", logs |-> arn]
       /\ IF HasStopOnSignals
          THEN /\ handlers' = setupSignalHandlers(bid, stopOnSignals)
               /\ Invoke([id |-> bid, logs |-> arn,
                          updateInterval |-> UpdateInterval,
                          hideCloudWatchLogs |-> cfgHide,
                          seqEmptyLogs |-> 0, totalEvents |-> 0,
                          throttleCount |-> 0, nextToken |-> Undefined])
               /\ UNCHANGED <<thrown, failed, banner, branch>>
          ELSE /\ Caught(SetupError)
               /\ UNCHANGED <<handlers, loopVars, fetchVars, statusFetches,
                              logFetches, reqToken>>
  /\ UNCHANGED <<cfgVars, waitMs, result, out, awsBuildId, stopVars,
                 startCalls, hist, rateFailures, discarded, ref, signalLog>>
  /\ UNCHANGED waited

\* A failed startBuild call is issued again.
StartBuildRetried ==
  /\ pc = "starting"
  /\ startCalls' = startCalls + 1
  /\ UNCHANGED <<cfgVars, pc, handlers, loopVars,
                 fetchVars, waitMs, outcomeVars, remoteVars, stopVars,
                 statusFetches, logFetches, reqToken, hist, rateFailures,
                 discarded, ref, signalLog>>
  /\ UNCHANGED waited

\* startBuild rejects: build() rejects, its caller handles the failure.
StartBuildReject ==
  /\ pc = "starting"
  /\ Caught(StartError)
  /\ UNCHANGED <<cfgVars, handlers, loopVars, fetchVars, waitMs,
                 result, out, awsBuildId, remoteVars, stopVars, obsVars,
                 signalLog>>
  /\ UNCHANGED waited

\* ------------------------------------------------------ signal handlers
\* The handler also abandons the run.
SignalAborts(s) ==
  /\ signalLog.count < MaxSignals
  /\ signalLog' = [count |-> signalLog.count + 1, last |-> s]
  /\ LET hs == HandlersFor(s)
     IN  /\ stopReqs' = stopReqs \o [i \in 1..Len(hs) |-> hs[i].id]
         /\ stopPending' = stopPending + Len(hs)
         /\ pc' = IF hs # <<>> THEN "thrown" ELSE pc
  /\ UNCHANGED <<cfgVars, handlers, loopVars, fetchVars,
                 waitMs, outcomeVars, remoteVars, errorsLogged, obsVars>>
  /\ UNCHANGED waited

\* The handlers are registered with process.once: they are removed when
\* they run.
SignalOnce(s) ==
  /\ signalLog.count < MaxSignals
  /\ signalLog' = [count |-> signalLog.count + 1, last |-> s]
  /\ LET hs == HandlersFor(s)
     IN  /\ stopReqs' = stopReqs \o [i \in 1..Len(hs) |-> hs[i].id]
         /\ stopPending' = stopPending + Len(hs)
  /\ handlers' = SelectSeq(handlers, LAMBDA h : h.sig # s)
  /\ UNCHANGED <<cfgVars, pc, loopVars, fetchVars,
                 waitMs, outcomeVars, remoteVars, errorsLogged, obsVars>>
  /\ UNCHANGED waited

\* Signal s is delivered to the process: every handler registered for it
\* runs up to its await, i.e. issues one stopBuild call (code-build.js 58-61).
Signal(s) ==
  /\ signalLog.count < MaxSignals
  /\ signalLog' = [count |-> signalLog.count + 1, last |-> s]
  /\ LET hs == HandlersFor(s)
     IN  /\ stopReqs' = stopReqs \o [i \in 1..Len(hs) |-> hs[i].id]
         /\ stopPending' = stopPending + Len(hs)
  /\ UNCHANGED <<cfgVars, pc, handlers, loopVars, fetchVars,
                 waitMs, outcomeVars, remoteVars, errorsLogged, obsVars>>
  /\ UNCHANGED waited

\* A stopBuild call succeeds: a running build becomes STOPPED.
StopFulfil ==
  /\ stopPending > 0
  /\ stopPending' = stopPending - 1
  /\ remote' = IF remote.buildStatus = "IN_PROGRESS"
               THEN [remote EXCEPT !.buildStatus = "STOPPED"] ELSE remote
  /\ UNCHANGED <<cfgVars, pc, handlers, loopVars, fetchVars,
                 waitMs, outcomeVars, stopReqs, errorsLogged, obsVars,
                 signalLog>>
  /\ UNCHANGED waited

\* The failure of a stopBuild call is thrown into the run.
StopRejectEscalates ==
  /\ stopPending > 0
  /\ stopPending' = stopPending - 1
  /\ errorsLogged' = errorsLogged + 1
  /\ pc' = "thrown"
  /\ thrown' = [message |-> "Some AWS error", call |-> "stopBuild"]
  /\ failed' = Some("Some AWS error")
  /\ UNCHANGED <<cfgVars, handlers, loopVars, fetchVars,
                 waitMs, result, out, awsBuildId, banner, branch, remoteVars,
                 stopReqs,
                 obsVars, signalLog>>
  /\ UNCHANGED waited

\* A stopBuild call fails: the handler's catch logs it (code-build.js 62-64).
StopReject ==
  /\ stopPending > 0
  /\ stopPending' = stopPending - 1
  /\ errorsLogged' = errorsLogged + 1
  /\ UNCHANGED <<cfgVars, pc, handlers, loopVars, fetchVars,
                 waitMs, outcomeVars, remoteVars, stopReqs, obsVars,
                 signalLog>>
  /\ UNCHANGED waited

Poll ==
  \/ Run
  \/ StartBuildFulfil
  \/ StartBuildReject
  \/ StatusFulfil
  \/ LogFulfil
  \/ StatusReject
  \/ LogReject
  \/ StaleSettle
  \/ SleepDone
  \/ BackOffDone

Next == Poll

Spec == Init /\ [][Next]_vars

SigNext ==
  \/ Poll
  \/ \E s \in Signals : Signal(s)
  \/ StopFulfil
  \/ StopReject

SigSpec == SigInit /\ [][SigNext]_vars

BackOffSpec == BackOffInit /\ [][Next]_vars

\* A run in which no signal is delivered, every timer fires and every
\* request that was sent is settled, by a reply or by an error.
LiveInit ==
  /\ ParamsGiven
  /\ cfgHide \in BOOLEAN
  /\ stopOnSignals = <<"SIGINT">>
  /\ updateBackOff = UpdateBackOff
  /\ limit = [log |-> LiveMaxLog, fetches |-> LiveMaxFetches,
              throttles |-> LiveMaxThrottle, statuses |-> {"SUCCEEDED"}]
  /\ Start

\* What the run is waiting for: the reply to startBuild, the outcome of a
\* fetch of the current invocation, or the end of a sleep.
Awaited ==
  \/ Run
  \/ StartBuildFulfil
  \/ StartBuildReject
  \/ StatusFulfil
  \/ LogFulfil
  \/ StatusReject
  \/ LogReject
  \/ SleepDone
  \/ BackOffDone

\* Whatever the run is waiting for eventually arrives.
Fairness == WF_vars(Awaited)

LiveSpec == LiveInit /\ [][Next]_vars /\ Fairness

TypeOK ==
  /\ pc \in {"init", "starting", "await", "sleep", "backoff", "returned",
             "thrown"}
  /\ seqEmptyLogs \in Nat /\ totalEvents \in Nat /\ throttleCount \in Nat
  /\ statusReq \in {"none", "pending", "done", "failed", "abandoned"}
  /\ logReq \in {"none", "pending", "done", "failed", "abandoned", "skipped"}
  /\ staleStatus \in 0..limit.throttles + 1
  /\ staleLog \in 0..limit.throttles + 1

\* --------------------------------- githubInputs() / inputs2Parameters()
\* Strings are sequences of tokens, "" is the empty sequence.
StartsWith(s, p) == Len(s) >= Len(p) /\ SubSeq(s, 1, Len(p)) = p

GithubPrefix == <<"GITHUB", "_">>
GITHUB_SHA == <<"GITHUB", "_", "SHA">>
GITHUB_EVENT_NAME == <<"GITHUB", "_", "EVENT", "_", "NAME">>

\* The variables an environment snapshot is made of.
BaseEnv ==
  << [name |-> <<"FOO">>, value |-> <<"foo">>],
     [name |-> GITHUB_SHA, value |-> <<"sha1">>],
     [name |-> <<"GITHUB">>, value |-> <<"x">>],
     [name |-> GITHUB_EVENT_NAME, value |-> <<"pull_request">>],
     [name |-> <<"MY", "_", "GITHUB", "_", "X">>, value |-> <<"y">>] >>

EnvSnapshots ==
  {SelectSeq(BaseEnv, LAMBDA e : e.name \in S) :
     S \in SUBSET {BaseEnv[i].name : i \in 1..Len(BaseEnv)}}

\* process.env[name]
EnvGet(ev, n) ==
  LET hit == SelectSeq(ev, LAMBDA e : e.name = n)
  IN  IF hit = <<>> THEN Undefined ELSE Some(hit[1].value)

\* github.context: the repository, and the head sha of the payload's pull
\* request when the payload has one.
Contexts ==
  {[owner |-> <<"octo">>, repo |-> <<"cat">>, headSha |-> h] :
     h \in {Undefined, Some(<<>>), Some(<<"prsha">>)}}

\* The raw values of the list input env-vars-for-codebuild.
RawLists ==
  { <<>>,
    <<"FOO", ",", " ", "GITHUB", "_", "SHA", "\n">>,
    <<"FOO", ",", ",", " ", "FOO", ",", "BAR">>,
    <<"FOO", " ", "\n", ",", " ", ",", "\n", "BAR">> }

InputNames ==
  {"project-name", "disable-source-override", "source-version-override",
   "source-type-override", "source-location-override", "buildspec-override",
   "compute-type-override", "environment-type-override", "image-override",
   "image-pull-credentials-type-override", "env-vars-for-codebuild",
   "update-interval", "update-back-off", "hide-cloudwatch-logs",
   "disable-github-env-vars", "artifacts-type-override", "stop-on-signals"}

\* The values of the inputs that are set or unset together.
OtherInputs ==
  [n \in InputNames |->
     CASE n = "buildspec-override" -> <<"buildspec.yml">>
       [] n = "compute-type-override" -> <<"BUILD_GENERAL1_SMALL">>
       [] n = "environment-type-override" -> <<"LINUX_CONTAINER">>
       [] n = "image-override" -> <<"img">>
       [] n = "image-pull-credentials-type-override" -> <<"CODEBUILD">>
       [] n = "update-interval" -> <<"5">>
       [] n = "update-back-off" -> <<"1", "0">>
       [] n = "hide-cloudwatch-logs" -> <<"true">>
       [] n = "artifacts-type-override" -> <<"NO_ARTIFACTS">>
       [] n = "stop-on-signals" -> <<"SIGINT", ",", " ", "SIGTERM">>
       [] OTHER -> <<>>]

\* The action inputs of a workflow step.
GetInputs ==
  {[n \in InputNames |->
      CASE n = "project-name" -> pn
        [] n = "disable-source-override" -> dso
        [] n = "source-version-override" -> svo
        [] n = "source-type-override" -> sto
        [] n = "source-location-override" -> slo
        [] n = "env-vars-for-codebuild" -> raw
        [] n = "disable-github-env-vars" -> dge
        [] OTHER -> IF rest THEN OtherInputs[n] ELSE <<>>] :
     pn \in {<<>>, <<"project">>},
     dso \in {<<>>, <<"true">>}, svo \in {<<>>, <<"v1">>},
     sto \in {<<>>, <<"S3">>}, slo \in {<<>>, <<"s3://bucket/src.zip">>},
     raw \in RawLists, dge \in {<<>>, <<"true">>}, rest \in BOOLEAN}

\* String.prototype.trim
RECURSIVE trimStart(_)
trimStart(m) ==
  IF m = <<>> THEN <<>>
  ELSE IF IsSpace(m[1]) THEN trimStart(SubSeq(m, 2, Len(m)))
  ELSE m

trim(m) == trimEnd(trimStart(m))

\* String.prototype.split(sep)
RECURSIVE split(_, _)
split(m, sep) ==
  LET i == FirstIndexOf(m, sep, 1)
  IN  IF i = 0 THEN <<m>>
      ELSE <<SubSeq(m, 1, i - 1)>> \o split(SubSeq(m, i + 1, Len(m)), sep)

\* The items are not trimmed.
ListInputUntrimmed(raw) ==
  SelectSeq(split(raw, ","), LAMBDA x : x # <<>>)

\* .split(",").map((i) => i.trim()).filter((i) => i !== "")
ListInput(raw) ==
  LET items == split(raw, ",")
  IN  SelectSeq([i \in 1..Len(items) |-> trim(items[i])],
                LAMBDA x : x # <<>>)

\* parseInt(digits, 10) of a non-empty sequence of decimal digits.
Digits == <<"0", "1", "2", "3", "4", "5", "6", "7", "8", "9">>
RECURSIVE parseInt(_)
parseInt(m) ==
  IF m = <<>> THEN 0
  ELSE parseInt(SubSeq(m, 1, Len(m) - 1)) * 10
         + (FirstIndexOf(Digits, m[Len(m)], 1) - 1)

\* x || undefined, and x || d, for a string x
OrUndefined(x) == IF x = <<>> THEN Undefined ELSE Some(x)
OrElse(x, d) == IF x = <<>> THEN d ELSE x

\* For a pull request event GITHUB_SHA is used when the payload has no head
\* sha.
SourceVersionShaFallback(gi, ev, ctx) ==
  IF gi["source-version-override"] # <<>>
  THEN Some(gi["source-version-override"])
  ELSE IF EnvGet(ev, GITHUB_EVENT_NAME) = Some(<<"pull_request">>)
            /\ ctx.headSha # Undefined /\ ctx.headSha # Some(<<>>)
       THEN ctx.headSha
       ELSE EnvGet(ev, GITHUB_SHA)

\* The source version githubInputs picks (code-build.js 201-205).
SourceVersion(gi, ev, ctx) ==
  IF gi["source-version-override"] # <<>>
  THEN Some(gi["source-version-override"])
  ELSE IF EnvGet(ev, GITHUB_EVENT_NAME) = Some(<<"pull_request">>)
       THEN ctx.headSha
       ELSE EnvGet(ev, GITHUB_SHA)

\* The project name is not required.
githubInputsErrorNoRequired(gi, ev, ctx) ==
  IF ~Truthy(SourceVersion(gi, ev, ctx))
  THEN [message |-> "No source version could be evaluated.",
        call |-> "assert"]
  ELSE NoError

\* The error githubInputs throws, NoError when it returns: getInput with
\* required: true throws for an input that is not supplied (line 190), the
\* assert of line 207 throws when no source version was found.
githubInputsError(gi, ev, ctx) ==
  IF gi["project-name"] = <<>>
  THEN [message |-> "Input required and not supplied: project-name",
        call |-> "getInput"]
  ELSE IF ~Truthy(SourceVersion(gi, ev, ctx))
  THEN [message |-> "No source version could be evaluated.",
        call |-> "assert"]
  ELSE NoError

\* The object githubInputs returns (code-build.js 265-284).
githubInputs(gi, ev, ctx) ==
  [projectName |-> Some(gi["project-name"]),
   owner |-> Some(ctx.owner),
   repo |-> Some(ctx.repo),
   sourceVersion |-> SourceVersion(gi, ev, ctx),
   buildspecOverride |-> OrUndefined(gi["buildspec-override"]),
   computeTypeOverride |-> OrUndefined(gi["compute-type-override"]),
   environmentTypeOverride |-> OrUndefined(gi["environment-type-override"]),
   imageOverride |-> OrUndefined(gi["image-override"]),
   imagePullCredentialsTypeOverride |->
     OrUndefined(gi["image-pull-credentials-type-override"]),
   envPassthrough |-> ListInput(gi["env-vars-for-codebuild"]),
   updateInterval |->
     parseInt(OrElse(gi["update-interval"], <<"3", "0">>)) * 1000,
   updateBackOff |->
     parseInt(OrElse(gi["update-back-off"], <<"1", "5">>)) * 1000,
   disableSourceOverride |-> gi["disable-source-override"] = <<"true">>,
   hideCloudWatchLogs |-> gi["hide-cloudwatch-logs"] = <<"true">>,
   disableGithubEnvVars |-> gi["disable-github-env-vars"] = <<"true">>,
   artifactsTypeOverride |-> OrUndefined(gi["artifacts-type-override"]),
   stopOnSignals |-> ListInput(gi["stop-on-signals"])]

\* The inputs objects callers pass to inputs2Parameters directly (local.js,
\* the tests): fields may be missing.
DirectInputs ==
  {[projectName |-> Some(<<"project">>), owner |-> Some(<<"octo">>),
    repo |-> Some(<<"cat">>), sourceVersion |-> Some(<<"sha1">>),
    sourceTypeOverride |-> sto, sourceLocationOverride |-> slo,
    disableSourceOverride |-> dso, disableGithubEnvVars |-> dge]
     @@ pass :
     sto \in {Undefined, Some(<<"S3">>)},
     slo \in {Undefined, Some(<<"s3://bucket/src.zip">>)},
     dso \in BOOLEAN, dge \in BOOLEAN,
     pass \in {<<>>, [envPassthrough |-> <<<<"FOO">>>>],
               [envPassthrough |-> <<<<"FOO">>, GITHUB_SHA, <<"FOO">>>>]}}

\* Property k of object o: undefined when o has no such property.
Field(o, k) == IF k \in DOMAIN o THEN o[k] ELSE Undefined
\* A boolean property, read in a condition.
Flag(o, k) == IF k \in DOMAIN o THEN o[k] ELSE FALSE
\* { ...a, ...b }
Spread(a, b) == b @@ a
\* `${x}`
Text(x) == IF x = Undefined THEN <<"undefined">> ELSE x[1]

\* The source fields are sent whatever disableSourceOverride is.
sourceOverrideAlways(o) ==
  [sourceVersion |-> Field(o, "sourceVersion"),
   sourceTypeOverride |->
     IF Truthy(Field(o, "sourceTypeOverride"))
     THEN Field(o, "sourceTypeOverride") ELSE Some(<<"GITHUB">>),
   sourceLocationOverride |->
     IF Truthy(Field(o, "sourceLocationOverride"))
     THEN Field(o, "sourceLocationOverride")
     ELSE Some(<<"https://github.com/">> \o Text(Field(o, "owner"))
                 \o <<"/">> \o Text(Field(o, "repo")) \o <<".git">>)]

\* const sourceOverride = ... (code-build.js 305-311)
sourceOverride(o) ==
  IF ~Flag(o, "disableSourceOverride")
  THEN [sourceVersion |-> Field(o, "sourceVersion"),
        sourceTypeOverride |->
          IF Truthy(Field(o, "sourceTypeOverride"))
          THEN Field(o, "sourceTypeOverride") ELSE Some(<<"GITHUB">>),
        sourceLocationOverride |->
          IF Truthy(Field(o, "sourceLocationOverride"))
          THEN Field(o, "sourceLocationOverride")
          ELSE Some(<<"https://github.com/">> \o Text(Field(o, "owner"))
                      \o <<"/">> \o Text(Field(o, "repo")) \o <<".git">>)]
  ELSE <<>>

\* const artifactsOverride = ... (code-build.js 313-319)
artifactsOverride(o) ==
  IF Truthy(Field(o, "artifactsTypeOverride"))
  THEN [artifactsOverride |-> [type |-> Field(o, "artifactsTypeOverride")]]
  ELSE <<>>

\* Every GITHUB_ variable is passed, whatever disableGithubEnvVars is.
EnvWantedAnyway(key, disableGithubEnvVars, envPassthrough) ==
  \/ StartsWith(key, GithubPrefix)
  \/ \E i \in 1..Len(envPassthrough) : envPassthrough[i] = key

\* The filter of code-build.js 322-326.
EnvWanted(key, disableGithubEnvVars, envPassthrough) ==
  \/ ~disableGithubEnvVars /\ StartsWith(key, GithubPrefix)
  \/ \E i \in 1..Len(envPassthrough) : envPassthrough[i] = key

\* const environmentVariablesOverride = ... (code-build.js 321-327)
environmentVariablesOverride(o, ev) ==
  LET envPassthrough ==
        IF "envPassthrough" \in DOMAIN o THEN o.envPassthrough ELSE <<>>
      kept ==
        SelectSeq(ev, LAMBDA e :
          EnvWanted(e.name, Flag(o, "disableGithubEnvVars"), envPassthrough))
  IN  [i \in 1..Len(kept) |->
         [name |-> kept[i].name, value |-> kept[i].value,
          type |-> "PLAINTEXT"]]

\* The object inputs2Parameters returns (code-build.js 331-341).
inputs2Parameters(o, ev) ==
  Spread(Spread(Spread(Spread(
    [projectName |-> Field(o, "projectName")],
    sourceOverride(o)),
    [buildspecOverride |-> Field(o, "buildspecOverride")]),
    artifactsOverride(o)),
    [computeTypeOverride |-> Field(o, "computeTypeOverride"),
     environmentTypeOverride |-> Field(o, "environmentTypeOverride"),
     imageOverride |-> Field(o, "imageOverride"),
     imagePullCredentialsTypeOverride |->
       Field(o, "imagePullCredentialsTypeOverride"),
     environmentVariablesOverride |-> environmentVariablesOverride(o, ev)])

\* The variables of the run, which building the parameters leaves alone.
runVars ==
  <<cfgHide, stopOnSignals, updateBackOff, limit, pc, handlers, loopVars,
    fetchVars, waitMs, outcomeVars, remoteVars, stopVars, obsVars, signalLog,
    waited>>

\* A workflow step (runBuild) about to call githubInputs, or a caller about
\* to call inputs2Parameters with an inputs object of its own.
ParamInit ==
  /\ cfgHide = FALSE /\ stopOnSignals = <<>>
  /\ updateBackOff = UpdateBackOff
  /\ limit = [log |-> MaxLog, fetches |-> MaxFetches,
              throttles |-> MaxThrottle, statuses |-> TerminalStatuses]
  /\ Start
  /\ NoLogName /\ NoLocal
  /\ env \in EnvSnapshots
  /\ params = <<>> /\ again = Undefined
  /\ \/ /\ entry = "runBuild" /\ ppc = "init"
        /\ getInput \in GetInputs /\ context \in Contexts
        /\ inputs = <<>>
     \/ /\ entry = "inputs2Parameters" /\ ppc = "inputs"
        /\ getInput = <<>> /\ context = <<>>
        /\ inputs \in DirectInputs

\* run() calls runBuild, which calls githubInputs (code-build.js 24): what
\* githubInputs throws is caught by run() (index.js 40-44).
GithubInputs ==
  /\ ppc = "init"
  /\ LET err == githubInputsError(getInput, env, context)
     IN  IF err = NoError
         THEN /\ inputs' = githubInputs(getInput, env, context)
              /\ ppc' = "inputs"
              /\ UNCHANGED <<pc, thrown, failed, banner, branch>>
         ELSE /\ inputs' = inputs
              /\ ppc' = "failed"
              /\ RunCatch(err)
  /\ UNCHANGED <<getInput, env, context, entry, params, again, cfgHide,
                 stopOnSignals, updateBackOff, limit, handlers, loopVars,
                 fetchVars, waitMs, result, out, awsBuildId, remoteVars,
                 stopVars, obsVars, signalLog, waited, nameVars,
                 localVars>>

\* The call empties the envPassthrough list of its argument.
Inputs2ParametersConsuming ==
  /\ ppc = "inputs"
  /\ params' = inputs2Parameters(inputs, env)
  /\ ppc' = "params"
  /\ inputs' = [k \in DOMAIN inputs |->
                  IF k = "envPassthrough" THEN <<>> ELSE inputs[k]]
  /\ UNCHANGED <<getInput, env, context, entry, again, runVars,
                 nameVars, localVars>>

\* inputs2Parameters is called with the inputs object (code-build.js 39).
Inputs2Parameters ==
  /\ ppc = "inputs"
  /\ params' = inputs2Parameters(inputs, env)
  /\ ppc' = "params"
  /\ UNCHANGED <<getInput, env, context, entry, inputs, again, runVars,
                 nameVars, localVars>>

\* A caller of inputs2Parameters calls it once more with the same object.
Inputs2ParametersAgain ==
  /\ entry = "inputs2Parameters" /\ ppc = "params" /\ pc = "init"
  /\ again = Undefined
  /\ again' = Some(inputs2Parameters(inputs, env))
  /\ UNCHANGED <<getInput, env, context, entry, inputs, params, ppc, runVars,
                 nameVars, localVars>>

ParamNext ==
  GithubInputs \/ Inputs2Parameters \/ Inputs2ParametersAgain \/ Run

ParamSpec == ParamInit /\ [][ParamNext]_vars

\* ---------------------------------------------------------------- logName
\* Longest group or stream name, in pieces.
MaxText == 2

\* The pieces names are made of.
Pieces == {"null", "g", "/"}

RECURSIVE Texts(_)
Texts(n) ==
  IF n = 0 THEN {<<>>}
  ELSE Texts(n - 1) \cup
         {Append(t, p) : t \in {u \in Texts(n - 1) : Len(u) = n - 1},
                         p \in Pieces}

\* What precedes the last ":log-group:" of an ARN.
Prefixes ==
  {<<"arn:aws:logs:r:1">>,
   <<"arn:aws:logs:r:1", LG, "old", LS, "null">>,
   <<"arn:aws:logs:r:1", LS, "s">>}

\* The arguments logName is called with: nothing, the empty string, an ARN
\* with group and stream, an ARN without stream, a text with ":log-stream:"
\* but without ":log-group:", a text with neither.
ArnInputs ==
  {[kind |-> "absent"], [kind |-> "empty"]}
    \cup {[kind |-> "stream", G |-> g, S |-> t] :
            g \in Texts(MaxText) \ {<<>>}, t \in Texts(MaxText)}
    \cup {[kind |-> "plain", G |-> g] : g \in Texts(MaxText) \ {<<>>}}
    \cup {[kind |-> "full", prefix |-> p, G |-> g, S |-> t] :
            p \in Prefixes, g \in Texts(MaxText), t \in Texts(MaxText)}
    \cup {[kind |-> "group", prefix |-> p, G |-> g] :
            p \in Prefixes, g \in Texts(MaxText)}

\* The string an argument stands for, <<>> when it is absent or empty.
ArnText(a) ==
  CASE a.kind = "full" -> a.prefix \o <<LG>> \o a.G \o <<LS>> \o a.S
    [] a.kind = "group" -> a.prefix \o <<LG>> \o a.G
    [] a.kind = "stream" -> a.G \o <<LS>> \o a.S
    [] a.kind = "plain" -> a.G
    [] OTHER -> <<>>

\* A caller about to call logName.
LogNameInit ==
  /\ cfgHide = FALSE /\ stopOnSignals = <<>>
  /\ updateBackOff = UpdateBackOff
  /\ limit = [log |-> MaxLog, fetches |-> MaxFetches,
              throttles |-> MaxThrottle, statuses |-> TerminalStatuses]
  /\ Start
  /\ getInput = <<>> /\ env = <<>> /\ context = <<>> /\ entry = "logName"
  /\ inputs = <<>> /\ params = <<>> /\ ppc = "off" /\ again = Undefined
  /\ arnArg \in ArnInputs
  /\ names = <<>>
  /\ NoLocal

\* logName(arnArg) returns.
LogName ==
  /\ entry = "logName" /\ names = <<>>
  /\ names' = logName(ArnText(arnArg))
  /\ UNCHANGED <<arnArg, paramVars, runVars, localVars>>

LogNameSpec == LogNameInit /\ [][LogName]_vars

\* ---------------------------------------------------------------- local.js
\* Here a string is the sequence of its characters.
repoSSH == <<"g", "i", "t", "@">>
repoHTTPS == <<"h", "t", "t", "p", "s", ":", "/", "/">>

\* The URL of the remote as `git remote -v` lists it: none when no line
\* matches the remote name.
RemoteUrls ==
  {Undefined,
   Some(<<"h", "t", "t", "p", "s", ":", "/", "/", "h", "/", "o", "/", "r",
          ".", "g", "i", "t">>),
   Some(<<"g", "i", "t", "@", "h", ":", "o", "/", "r", ".", "g", "i", "t">>),
   Some(<<"g", "i", "t", "@", "h", ":", "r", ".", "g", "i", "t">>),
   Some(<<"h", "t", "t", "p", "s", ":", "/", "/", "h", "/", "o", "/", "r">>),
   Some(<<"s", "s", "h", ":", "/", "/", "h", "/", "o", "/", "r",
          ".", "g", "i", "t">>)}

\* s.slice(start, -fromEnd)
Slice(s, start, fromEnd) == SubSeq(s, start + 1, Len(s) - fromEnd)

\* s.split(sep) for a separator of one character.
RECURSIVE SplitAt(_, _)
SplitAt(s, sep) ==
  LET i == FirstIndexOf(s, sep, 1)
  IN  IF i = 0 THEN <<s>>
      ELSE <<SubSeq(s, 1, i - 1)>> \o SplitAt(SubSeq(s, i + 1, Len(s)), sep)

\* The property k of an array, for a k that is not an index.
ArrayProperty(a, k) == Undefined

LocalError(m) == [message |-> m, call |-> "githubInfo"]

\* githubInfo(remote) (local.js 120-158): the error it throws, or the owner
\* and repo it returns. The last line destructures the array of the last two
\* path elements with an object pattern.
githubInfo(url) ==
  IF url = Undefined
  THEN [error |-> LocalError("No remote found named origin")]
  ELSE LET u == url[1]
           https == StartsWith(u, repoHTTPS)
           ssh == StartsWith(u, repoSSH)
           sshPath == SplitAt(Slice(u, Len(repoSSH), 4), ":")
           url_path_elements ==
             IF https THEN SplitAt(Slice(u, Len(repoHTTPS), 4), "/")
             ELSE IF ssh THEN SplitAt(sshPath[Len(sshPath)], "/")
             ELSE <<>>
           lastTwo == SubSeq(url_path_elements, Len(url_path_elements) - 1,
                             Len(url_path_elements))
       IN  IF ~https /\ ~ssh
           THEN [error |-> LocalError(
                   "Unsupported format - not a valid HTTPS or SSH URL")]
           ELSE IF Len(url_path_elements) < 2
           THEN [error |-> LocalError(
              "Unsupported format - could not find owner and repo in path")]
           ELSE [error |-> NoError,
                 owner |-> ArrayProperty(lastTwo, "owner"),
                 repo |-> ArrayProperty(lastTwo, "repo")]

\* const BRANCH_NAME = uuid()
BRANCH_NAME == <<"uuid">>

\* The options yargs parsed: project-name is demanded, the others are
\* optional.
Argvs ==
  {[projectName |-> Some(<<"project">>), buildspecOverride |-> b,
    envVarsForCodebuild |-> e] :
     b \in {Undefined, Some(<<"spec.yml">>)},
     e \in {Undefined, Some(<<<<"FOO">>>>)}}

\* The object local.js passes to inputs2Parameters (lines 84-95). The
\* destructuring of yargs' result reads envPassthrough, which yargs does not
\* set (the option is env-vars-for-codebuild), so the property is undefined.
LocalInputs(info, av) ==
  [projectName |-> av.projectName,
   owner |-> info.owner, repo |-> info.repo,
   sourceVersion |-> Some(BRANCH_NAME),
   buildspecOverride |-> av.buildspecOverride]

\* The command line tool is started in a git sandbox.
LocalInit ==
  /\ cfgHide = FALSE /\ stopOnSignals = <<>>
  /\ updateBackOff = UpdateBackOff
  /\ limit = [log |-> MaxLog, fetches |-> MaxFetches,
              throttles |-> MaxThrottle, statuses |-> TerminalStatuses]
  /\ Start
  /\ NoLogName
  /\ getInput = <<>> /\ context = <<>> /\ entry = "local"
  /\ inputs = <<>> /\ params = <<>> /\ ppc = "init" /\ again = Undefined
  /\ env \in EnvSnapshots
  /\ gitUrl \in RemoteUrls
  /\ argv \in Argvs

\* The body of the script up to the first await (local.js 84-104): the
\* parameters are built, the branch is pushed and build() calls startBuild.
\* The git commands are taken to succeed.
LocalScript ==
  /\ entry = "local" /\ pc = "init" /\ ppc = "init"
  /\ LET info == githubInfo(gitUrl)
     IN  IF info.error # NoError
         THEN /\ ppc' = "failed"
              /\ pc' = "thrown"
              /\ thrown' = info.error
              /\ UNCHANGED <<inputs, params, branch, startCalls>>
         ELSE /\ inputs' = LocalInputs(info, argv)
              /\ params' = inputs2Parameters(LocalInputs(info, argv), env)
              /\ ppc' = "params"
              /\ branch' = "pushed"
              /\ pc' = "starting"
              /\ startCalls' = startCalls + 1
              /\ thrown' = thrown
  /\ UNCHANGED <<cfgHide, stopOnSignals, updateBackOff, limit, getInput, env,
                 context, entry, again, nameVars, localVars, handlers,
                 loopVars, fetchVars, waitMs, result, out, awsBuildId, failed,
                 banner, remoteVars, stopVars, statusFetches, logFetches,
                 reqToken, hist, rateFailures, discarded, ref, signalLog,
                 waited>>

LocalNext == LocalScript \/ StartBuildFulfil \/ StartBuildReject

LocalSpec == LocalInit /\ [][LocalNext]_vars

\* ================================================================ claims

C2_SucceedsIffSucceeded ==
  pc = "returned" =>
    ((failed = Undefined) <=> (result.buildStatus = "SUCCEEDED"))

\* C3: when hide-cloudwatch-logs is true, no getLogEvents call is issued and
\* no log line is emitted during the whole run.
C3_HiddenLogsNeverFetched ==
  cfgHide => logFetches = 0 /\ out = <<>>

\* The non-rate-limit errors with which a fetch of the run has failed: the
\* one Promise.all reported and the ones of fetches it had already abandoned.
FatalSeen ==
  discarded \cup
    (IF errObject # NoError /\ errObject.message # "Rate exceeded"
     THEN {errObject} ELSE {})

\* C4 as stated: whenever the status fetch or the log fetch of an iteration
\* has failed with an error whose message does not contain "Rate exceeded",
\* waitForBuildEndTime has rejected with such an error of that iteration.
C4_EveryFatalFetchErrorRejects ==
  FatalSeen # {} => pc = "thrown" /\ thrown \in FatalSeen

\* C4 (amended): if the first fetch of an iteration to fail, whose error is the
\* one Promise.all rejects with, fails with an error whose message does not
\* contain "Rate exceeded", waitForBuildEndTime rejects with exactly that error
\* object, emits no log line for that iteration, returns no status, and no
\* status or log fetch is issued afterwards.
C4_FirstFatalErrorRejects ==
  [][/\ (pc = "await" /\ errObject' # NoError
           /\ errObject'.message # "Rate exceeded") =>
          /\ pc' = "thrown"
          /\ thrown' = errObject'
          /\ errObject'.call =
               (IF statusReq' = "failed" THEN "batchGetBuilds"
                ELSE "getLogEvents")
          /\ out' = out
          /\ result' = NoBuild
     /\ pc = "thrown" =>
          /\ pc' = "thrown"
          /\ thrown' = thrown
          /\ statusFetches' = statusFetches
          /\ logFetches' = logFetches
          /\ out' = out
          /\ result' = NoBuild]_vars

\* The log fetch of a later iteration failed after lines had been printed.
C4_Witness ==
  /\ pc = "thrown" /\ thrown.call = "getLogEvents"
  /\ thrown.message = "Some AWS error"
  /\ out # <<>> /\ statusFetches >= 2

\* C5: an iteration that fails with a rate-limit error leaves the log cursor,
\* seqEmptyLogs, totalEvents, the build id and the log location unchanged,
\* increments throttleCount by exactly 1 and prints nothing; nothing of this
\* changes during the back-off, and the retry issues a status fetch again and
\* its log fetch carries the same cursor as the failed iteration.
C5_RateLimitKeepsPosition ==
  [][/\ (pc = "await" /\ errObject'.message = "Rate exceeded") =>
          /\ pc' = "backoff"
          /\ UNCHANGED <<nextToken, seqEmptyLogs, totalEvents, id, logs, out>>
          /\ throttleCount' = throttleCount + 1
          /\ (logReq # "skipped" => reqToken = nextToken)
     /\ pc = "backoff" =>
          /\ UNCHANGED <<nextToken, seqEmptyLogs, totalEvents, id, logs, out,
                         throttleCount>>
          /\ pc' \in {"backoff", "await"}
          /\ pc' = "await" =>
               /\ statusFetches' = statusFetches + 1
               /\ logReq' = "pending" => reqToken' = nextToken]_vars

\* The retry after a rate-limit failure is in flight with the cursor that an
\* earlier log reply had returned.
C5_Witness ==
  /\ pc = "await" /\ throttleCount = 1 /\ errObject = NoError
  /\ nextToken # Undefined /\ nextToken # Some(0)
  /\ logReq = "pending" /\ reqToken = nextToken

\* C6: a run in which exactly one fetch fails, with "Rate exceeded", returns
\* the same status and prints the same lines as the run without that failure.
C6_OneRateLimitChangesNothing ==
  (pc = "returned" /\ rateFailures = 1 /\ throttleCount = 1
     /\ discarded = {}) =>
    (ref.done /\ result = ref.result /\ out = ref.out)

\* The number of empty log batches at the end of the sequence of successful
\* polls, counted from the poll that first reported an end time.
EmptySinceEnd ==
  IF hist.firstEnd = 0 THEN 0
  ELSE Min(hist.emptyRun, hist.polls - hist.firstEnd + 1)

EndsInsideEmptyRun ==
  /\ hist.firstEnd > 0 /\ hist.polls = hist.firstEnd
  /\ hist.emptyRun >= 2 /\ hist.received # <<>>

Whitespace == {" ", "\t", "\r", "\n"}

\* line is message m without its trailing whitespace.
RightTrimOf(line, m) ==
  \E n \in 0..Len(m) :
    /\ line = SubSeq(m, 1, n)
    /\ \A i \in (n + 1)..Len(m) : m[i] \in Whitespace
    /\ n = 0 \/ m[n] \notin Whitespace

C8_OutputIsReceivedTrimmed ==
  /\ Len(out) = Len(hist.received)
  /\ \A i \in 1..Len(out) : RightTrimOf(out[i], hist.received[i])
  /\ Len(out) = totalEvents

\* The loop returned after printing two lines, one with its ending removed.
C8_Witness ==
  pc = "returned" /\ Len(out) >= 2 /\ out # hist.received

\* The number of times signal s is listed in stop-on-signals.
TimesListed(s) ==
  Cardinality({i \in 1..Len(stopOnSignals) : stopOnSignals[i] = s})

\* A signal is delivered in this step, after startBuild returned the build.
SignalAfterStart ==
  signalLog'.count = signalLog.count + 1 /\ remote.id # ""

\* C9 as stated: after the build has been started, every occurrence of a signal
\* of stop-on-signals causes one stop-build request carrying the id returned
\* by startBuild.
C9_OneStopPerOccurrence ==
  [][(SignalAfterStart /\ TimesListed(signalLog'.last) > 0) =>
       stopReqs' = Append(stopReqs, remote.id)]_vars

\* C9 (amended): after the build has been started, every occurrence of a
\* signal causes one stop-build request carrying the id returned by
\* startBuild for each time the signal is listed in stop-on-signals: one per
\* occurrence when it is listed once, none when it is not listed.
C9_OneStopPerListing ==
  [][SignalAfterStart =>
       /\ stopReqs' =
            stopReqs \o [i \in 1..TimesListed(signalLog'.last) |-> remote.id]
       /\ stopPending' = stopPending + TimesListed(signalLog'.last)]_vars

\* Two occurrences of a signal that is listed twice caused four stop requests
\* for the started build.
C9_Witness ==
  /\ stopOnSignals = <<"SIGINT", "SIGINT">>
  /\ signalLog = [count |-> 2, last |-> "SIGINT"]
  /\ remote.id # ""
  /\ stopReqs = <<remote.id, remote.id, remote.id, remote.id>>

\* C10: a signal handler run, and the settling of its stop-build call, change
\* no state of the poll loop and neither return nor abort it; the loop returns
\* only in a step that completes the fetches of an iteration with a status
\* that has an end time and with seqEmptyLogs >= 2.
C10_SignalLeavesLoopAlone ==
  [][/\ (signalLog' # signalLog \/ stopPending' # stopPending) =>
          UNCHANGED <<pc, loopVars, fetchVars, waitMs, result, thrown, out,
                      awsBuildId, failed, statusFetches, logFetches>>
     /\ (pc # "returned" /\ pc' = "returned") =>
          /\ pc = "await" /\ statusReq' = "done"
          /\ logReq' \in {"done", "skipped"}
          /\ result' = batch'[1] /\ result'.endTime
          /\ seqEmptyLogs' >= 2]_vars

\* After a signal and its stop request the loop went on polling and returned
\* the STOPPED build.
C10_Witness ==
  /\ pc = "returned" /\ result.buildStatus = "STOPPED"
  /\ signalLog.count > 0 /\ stopReqs # <<>>

\* C11: a failing stop-build call of a signal handler is only logged: the
\* step in which it fails changes neither the control state of the run nor
\* any state of the poll loop and the run never throws a stop-build error; a
\* signal that is delivered after such a failure still issues a stop-build
\* request for the started build.
C11_StopFailureOnlyLogged ==
  [][/\ errorsLogged' # errorsLogged =>
          /\ errorsLogged' = errorsLogged + 1
          /\ UNCHANGED <<pc, handlers, loopVars, fetchVars, waitMs,
                         outcomeVars, statusFetches, logFetches>>
     /\ thrown'.call # "stopBuild"
     /\ (SignalAfterStart /\ errorsLogged > 0
           /\ TimesListed(signalLog'.last) > 0) =>
          /\ Len(stopReqs') > Len(stopReqs)
          /\ stopReqs'[Len(stopReqs')] = remote.id]_vars

\* One stop-build call failed, another one stopped the build, and the loop
\* returned the stopped build.
C11_Witness ==
  /\ stopOnSignals = <<"SIGINT">>
  /\ errorsLogged = 1 /\ Len(stopReqs) = 2 /\ stopPending = 0
  /\ pc = "returned" /\ result.buildStatus = "STOPPED"

\* C12: a run issues exactly one startBuild call; when it fails the run has
\* thrown that error, no signal handler is installed and no status fetch,
\* log fetch or stop-build request has been issued.
C12_OneStartBuildCall ==
  /\ startCalls = (IF pc = "init" THEN 0 ELSE 1)
  /\ (pc = "thrown" /\ remote.id = "") =>
       /\ thrown = StartError
       /\ handlers = <<>>
       /\ statusFetches = 0 /\ logFetches = 0
       /\ stopReqs = <<>> /\ stopPending = 0

\* startBuild failed and listed signals were delivered afterwards.
C12_Witness ==
  /\ pc = "thrown" /\ thrown = StartError
  /\ stopOnSignals = <<"SIGINT", "SIGTERM">>
  /\ signalLog.count = MaxSignals

\* C13: with an empty stop-on-signals list no signal handler is installed
\* and no stop-build request is issued, whatever signals are delivered.
C13_NoSignalsNoStop ==
  stopOnSignals = <<>> =>
    handlers = <<>> /\ stopReqs = <<>> /\ stopPending = 0

\* Signals were delivered to a polling run that lists no signal, and the
\* loop returned.
C13_Witness ==
  /\ stopOnSignals = <<>> /\ signalLog.count = MaxSignals
  /\ pc = "returned"

\* The first status reply carried an end time and no event was received.
EndedAtOnceNoEvents ==
  hist.firstEnd = 1 /\ hist.received = <<>>

ScenarioB ==
  /\ hist.firstData = 2 /\ hist.firstEnd = 3
  /\ hist.emptyRun = hist.polls - 2

C16_BackOffAddsToConfiguredInterval ==
  pc = "backoff" =>
    /\ waitMs >= UpdateInterval
    /\ waitMs <= UpdateInterval + updateBackOff * Pow2(throttleCount - 1)

\* C17: when the loop returns after a run in which no fetch failed, the time
\* it has slept since a status reply first reported the end of the build is
\* at most one update interval.
C17_FinishesWithinOneInterval ==
  (pc = "returned" /\ rateFailures = 0 /\ discarded = {}) =>
    waited <= UpdateInterval

\* The names of the passthrough list of the inputs object.
PassthroughSet ==
  IF "envPassthrough" \in DOMAIN inputs
  THEN {inputs.envPassthrough[i] : i \in 1..Len(inputs.envPassthrough)}
  ELSE {}

\* Name n may be passed to CodeBuild.
Passable(n) ==
  \/ ~Flag(inputs, "disableGithubEnvVars")
       /\ Len(n) >= 2 /\ n[1] = "GITHUB" /\ n[2] = "_"
  \/ n \in PassthroughSet

\* C18: every entry of environmentVariablesOverride has a name that starts
\* with GITHUB_ (only when disableGithubEnvVars is false) or is in the
\* passthrough list, the value the environment gives that name, and type
\* PLAINTEXT; every such name of the environment appears exactly once, and
\* no name appears twice.
C18_EnvOverrideIsFilteredEnv ==
  ppc = "params" =>
    LET evo == params.environmentVariablesOverride
    IN  /\ \A i \in 1..Len(evo) :
             /\ Passable(evo[i].name)
             /\ evo[i].type = "PLAINTEXT"
             /\ EnvGet(env, evo[i].name) = Some(evo[i].value)
        /\ \A k \in 1..Len(env) :
             Passable(env[k].name) =>
               Cardinality({i \in 1..Len(evo) : evo[i].name = env[k].name})
                 = 1
        /\ \A i, j \in 1..Len(evo) : evo[i].name = evo[j].name => i = j

\* A workflow step whose passthrough list names a GITHUB_ variable: of the
\* five variables of the environment three are passed.
C18_Witness ==
  /\ ppc = "params" /\ entry = "runBuild"
  /\ Len(env) = 5 /\ GITHUB_SHA \in PassthroughSet
  /\ Len(params.environmentVariablesOverride) = 3

SourceKeys == {"sourceVersion", "sourceTypeOverride", "sourceLocationOverride"}

\* C19: with disable-source-override true the start-build request has none
\* of sourceVersion, sourceTypeOverride, sourceLocationOverride; otherwise it
\* has all three, sourceVersion being the one of the inputs object,
\* sourceTypeOverride being GITHUB and sourceLocationOverride being
\* https://github.com/<owner>/<repo>.git unless the inputs object gives them.
C19_SourceOverrideFollowsFlag ==
  ppc = "params" =>
    /\ entry = "runBuild" =>
         Flag(inputs, "disableSourceOverride")
           = (getInput["disable-source-override"] = <<"true">>)
    /\ IF Flag(inputs, "disableSourceOverride")
       THEN SourceKeys \cap DOMAIN params = {}
       ELSE /\ SourceKeys \subseteq DOMAIN params
            /\ params.sourceVersion = inputs.sourceVersion
            /\ Field(inputs, "sourceTypeOverride") = Undefined =>
                 params.sourceTypeOverride = Some(<<"GITHUB">>)
            /\ Field(inputs, "sourceLocationOverride") = Undefined =>
                 params.sourceLocationOverride =
                   Some(<<"https://github.com/">> \o inputs.owner[1]
                          \o <<"/">> \o inputs.repo[1] \o <<".git">>)

\* A workflow step with disable-source-override true produced a request.
C19_Witness ==
  /\ ppc = "params" /\ entry = "runBuild"
  /\ getInput["disable-source-override"] = <<"true">>
  /\ "projectName" \in DOMAIN params

\* C20: in a workflow step with source override enabled, a non-empty
\* source-type-override input is the sourceTypeOverride of the start-build
\* request and a non-empty source-location-override input is its
\* sourceLocationOverride.
C20_SourceInputsReachRequest ==
  (ppc = "params" /\ entry = "runBuild"
     /\ getInput["disable-source-override"] # <<"true">>) =>
    /\ getInput["source-type-override"] # <<>> =>
         params.sourceTypeOverride = Some(getInput["source-type-override"])
    /\ getInput["source-location-override"] # <<>> =>
         params.sourceLocationOverride =
           Some(getInput["source-location-override"])

\* The source version the inputs of the workflow step select.
ChosenVersion ==
  LET svo == getInput["source-version-override"]
      isPullRequest ==
        \E k \in 1..Len(env) :
          /\ env[k].name = GITHUB_EVENT_NAME
          /\ env[k].value = <<"pull_request">>
      shas == {env[k].value : k \in {i \in 1..Len(env) :
                                       env[i].name = GITHUB_SHA}}
  IN  IF svo # <<>> THEN {svo}
      ELSE IF isPullRequest
           THEN (IF context.headSha = Undefined THEN {}
                 ELSE {context.headSha[1]})
           ELSE shas

\* C21: githubInputs picks as sourceVersion the source-version-override
\* input if non-empty, else the pull request head sha of the payload when
\* GITHUB_EVENT_NAME is pull_request, else GITHUB_SHA; when the chosen value
\* is empty or absent it throws "No source version could be evaluated." and
\* produces no inputs object.
C21_SourceVersionChoice ==
  (entry = "runBuild" /\ getInput["project-name"] # <<>>) =>
    IF ChosenVersion \in {{}, {<<>>}}
    THEN /\ ppc \in {"init", "failed"}
         /\ inputs = <<>> /\ params = <<>>
         /\ ppc = "failed" =>
              thrown.message = "No source version could be evaluated."
    ELSE /\ ppc # "failed"
         /\ ppc \in {"inputs", "params"} =>
              ChosenVersion = {inputs.sourceVersion[1]}

\* A pull request event without head sha: githubInputs threw although
\* GITHUB_SHA is set.
C21_Witness ==
  /\ entry = "runBuild" /\ ppc = "failed"
  /\ thrown.message = "No source version could be evaluated."
  /\ EnvGet(env, GITHUB_EVENT_NAME) = Some(<<"pull_request">>)
  /\ EnvGet(env, GITHUB_SHA) # Undefined
  /\ context.headSha = Undefined

C23_LogNameParts ==
  (entry = "logName" /\ names # <<>>) =>
    /\ (/\ arnArg.kind = "full"
        /\ arnArg.G # <<"null">> /\ arnArg.S # <<"null">>) =>
         names = [logGroupName |-> Some(arnArg.G),
                  logStreamName |-> Some(arnArg.S)]
    /\ (/\ arnArg.kind = "full"
        /\ (arnArg.G = <<"null">> \/ arnArg.S = <<"null">>)) =>
         names = [logGroupName |-> Undefined, logStreamName |-> Undefined]
    /\ arnArg.kind \in {"absent", "empty"} =>
         names = [logGroupName |-> Undefined, logStreamName |-> Undefined]

\* logName returned for an ARN whose stream is "null" while its group is
\* not, after an older ":log-group:" in the prefix.
C23_Witness ==
  /\ entry = "logName" /\ names # <<>>
  /\ arnArg.kind = "full" /\ arnArg.G = <<"/", "g">> /\ arnArg.S = <<"null">>
  /\ Len(arnArg.prefix) > 1
  /\ names.logGroupName = Undefined

\* C25: run() always ends in one of two ways, never with a rejection: when
\* runBuild resolved, the output aws-build-id is the id of the build that was
\* started and polled and the run is not marked failed; when runBuild threw,
\* the run is marked failed with the message of the error and aws-build-id
\* is not set; the completion banner is printed in both cases, and only then.
C25_RunReportsOutcome ==
  /\ pc \in {"init", "starting", "await", "sleep", "backoff", "returned",
             "thrown"}
  /\ banner <=> pc \in {"returned", "thrown"}
  /\ pc = "returned" =>
       /\ awsBuildId = remote.id /\ awsBuildId = id /\ awsBuildId = result.id
       /\ awsBuildId \in BuildIds
       /\ failed = Undefined /\ thrown = NoError
       /\ startCalls = 1
  /\ pc = "thrown" =>
       /\ thrown # NoError
       /\ failed = Some(thrown.message)
       /\ awsBuildId = ""
  /\ pc \notin {"returned", "thrown"} =>
       awsBuildId = "" /\ failed = Undefined

\* A fetch error ended the run of a build that was started: the run is
\* marked failed and no build id is put out.
C25_Witness ==
  /\ pc = "thrown" /\ remote.id \in BuildIds /\ thrown.call # "startBuild"
  /\ failed = Some(thrown.message) /\ awsBuildId = "" /\ banner

SuccessfulPoll == hist'.polls = hist.polls + 1

\* The size of the batch that poll received.
BatchSize == Len(hist'.received) - Len(hist.received)

\* C27: at every successful poll an empty log batch increments
\* consecutiveEmptyLogResponses (seqEmptyLogs) by 1 iff totalEventsSeen
\* (totalEvents) > 0 or the current status has an end time, every other
\* batch sets it to 0, and totalEvents grows by the batch size; no other step
\* changes the two counters. In every state seqEmptyLogs > 0 implies
\* totalEvents > 0 or a status with an end time was received, and
\* totalEvents is the number of lines emitted.
C27_QuiescenceAccounting ==
  /\ [](/\ seqEmptyLogs > 0 => (totalEvents > 0 \/ hist.firstEnd > 0)
        /\ totalEvents = Len(out))
  /\ [][IF SuccessfulPoll
        THEN /\ seqEmptyLogs' =
                  IF BatchSize = 0 /\ (totalEvents > 0 \/ batch'[1].endTime)
                  THEN seqEmptyLogs + 1 ELSE 0
             /\ totalEvents' = totalEvents + BatchSize
        ELSE UNCHANGED <<seqEmptyLogs, totalEvents>>]_vars

\* An empty batch was counted before the build ended, after a batch with
\* events had reset the count.
C27_Witness ==
  /\ seqEmptyLogs = 1 /\ totalEvents > 0 /\ hist.firstEnd = 0
  /\ hist.firstData > 1 /\ hist.polls > hist.firstData
  /\ totalEvents = Len(out)

\* C28: after a poll that does not return, the loop sleeps half the current
\* interval iff the status of that poll has an end time and throttleCount is
\* 0, and the full current interval otherwise; throttleCount never
\* decreases, so after a rate limit every such sleep is a full interval.
C28_HalfSleepOnlyUnthrottled ==
  [][/\ throttleCount' >= throttleCount
     /\ (SuccessfulPoll /\ pc' # "returned") =>
          /\ pc' = "sleep"
          /\ IF batch'[1].endTime /\ throttleCount' = 0
             THEN 2 * waitMs' = updateInterval'
             ELSE waitMs' = updateInterval'
          /\ rateFailures > 0 => waitMs' = updateInterval']_vars

\* The loop sleeps a full interval after a poll that reported the end of the
\* build, because a rate limit had occurred before.
C28_Witness ==
  /\ pc = "sleep" /\ batch[1].endTime /\ throttleCount > 0
  /\ waitMs = updateInterval /\ waitMs > 0

\* The steps of the loop around a rate-limit failure, with the jitter of
\* the failure constrained by InRange(j, bound): throttleCount c becomes
\* c + 1 and the loop sleeps W + j (W the current interval updateInterval, B
\* the back-off base updateBackOff, bound = B * 2^c); the retry and every
\* later wait use W + j as the interval, and the interval never decreases.
BackOffSteps(InRange(_, _)) ==
  /\ throttleCount' # throttleCount =>
       /\ throttleCount' = throttleCount + 1
       /\ pc = "await" /\ pc' = "backoff"
       /\ InRange(waitMs' - updateInterval,
                  updateBackOff * Pow2(throttleCount))
       /\ updateInterval' = updateInterval
  /\ (pc = "backoff" /\ pc' # "backoff") =>
       /\ pc' = "await"
       /\ updateInterval' = waitMs
       /\ throttleCount' = throttleCount
  /\ (pc' = "sleep" /\ pc # "sleep" /\ throttleCount' > 0) =>
       waitMs' = updateInterval'
  /\ pc # "backoff" => updateInterval' = updateInterval
  /\ updateInterval' >= updateInterval

StrictlyBelow(j, bound) == 0 <= j /\ j < bound

BelowOrZero(j, bound) == 0 <= j /\ (j < bound \/ (bound = 0 /\ j = 0))

StatusOutstanding == (IF statusReq = "pending" THEN 1 ELSE 0) + staleStatus

LogOutstanding == (IF logReq = "pending" THEN 1 ELSE 0) + staleLog

\* An invocation of the loop issues its fetches.
FetchesIssued == statusFetches' = statusFetches + 1

\* Emission, counter update and termination test happen only in the step
\* that joins both fetches of the current invocation.
JoinedBeforeProcessing ==
  /\ SuccessfulPoll =>
       statusReq' = "done" /\ logReq' \in {"done", "skipped"}
  /\ ~SuccessfulPoll =>
       /\ UNCHANGED <<out, seqEmptyLogs, totalEvents, result>>
       /\ pc' = "returned" => pc = "returned"

\* C30 (as stated): at any time at most one status fetch and at most one log
\* fetch are outstanding, both of the same iteration; log emission, counter
\* update, the termination test and the next iteration's fetches happen only
\* after both have completed.
C30_OneFetchOfEachKind ==
  /\ [](StatusOutstanding <= 1 /\ LogOutstanding <= 1)
  /\ [][/\ JoinedBeforeProcessing
        /\ FetchesIssued => (StatusOutstanding = 0 /\ LogOutstanding = 0)
       ]_vars

\* C30 (amended): an invocation awaits at most one status fetch and one log
\* fetch, and emission, counter update and termination test happen only when
\* both have completed; fetches are issued only when the previous invocation
\* awaits none. A fetch whose sibling failed is not waited for: what else is
\* outstanding are such abandoned fetches, at most one per failed iteration.
C30_OneAwaitedFetchOfEachKind ==
  /\ [](/\ staleStatus + staleLog
             <= throttleCount + (IF pc = "thrown" THEN 1 ELSE 0)
        /\ pc # "await" => (statusReq # "pending" /\ logReq # "pending"))
  /\ [][/\ JoinedBeforeProcessing
        /\ FetchesIssued =>
             /\ statusReq # "pending" /\ logReq # "pending"
             /\ StatusOutstanding = staleStatus
             /\ LogOutstanding = staleLog
       ]_vars

\* The retry after a rate-limited status fetch awaits its log fetch while
\* the log fetch of the failed iteration is still outstanding.
C30_Witness ==
  /\ pc = "await" /\ logReq = "pending" /\ staleLog = 1
  /\ throttleCount = 1 /\ LogOutstanding = 2

\* C24: the command line tool deletes the temporary branch only after the
\* build it started has run to completion (the poll loop returned a terminal
\* status) or failed, having tracked the build through the poll loop.
C24_BranchDeletedAfterBuild ==
  (entry = "local" /\ branch = "deleted" /\ remote.id \in BuildIds) =>
    /\ remote.buildStatus # "IN_PROGRESS"
    /\ statusFetches > 0
    /\ pc = "returned" => result.endTime

\* What an invocation of the loop does when it issues its fetches, for a run
\* whose logs are suppressed or not as given by hidden: one status fetch for
\* the id startBuild returned; a log fetch iff not hidden and the log
\* location of the most recent status snapshot names a log group; the first
\* log fetch without cursor, every later one with the nextForwardToken of
\* the log reply of the most recent successful poll.
IterationFetches(hidden) ==
  FetchesIssued =>
    /\ id' = remote'.id /\ id' \in BuildIds
    /\ pc = "sleep" => logs' = batch[1].logs
    /\ pc = "backoff" => logs' = logs
    /\ logFetches' \in {logFetches, logFetches + 1}
    /\ logFetches' = logFetches + 1 <=>
         (~hidden /\ Truthy(logName(logs').logGroupName))
    /\ (logFetches = 0 /\ logFetches' = 1) => reqToken' = Undefined
    /\ (logFetches > 0 /\ logFetches' = logFetches + 1) =>
         /\ reqToken' = nextToken'
         /\ pc = "sleep" => nextToken' = cloudWatch[1].nextForwardToken
         /\ pc = "backoff" => nextToken' = nextToken

\* C31: every iteration issues exactly one status fetch for the build id
\* returned by startBuild, and a log fetch iff logs are not suppressed
\* (hide-cloudwatch-logs) and the log location of the most recent status
\* snapshot names a log group; the first log fetch of a run carries no
\* cursor, every later one the nextForwardToken of the most recent
\* successful log reply.
C31_FetchesPerIteration == [][IterationFetches(cfgHide)]_vars

\* C32: a rate-limit failure is never propagated and never ends the loop:
\* after any number of consecutive "Rate exceeded" failures the loop has
\* neither returned nor thrown and goes on to retry.
C32_RateLimitAlwaysRetried ==
  /\ [](/\ pc = "thrown" => ~IsRateLimit(thrown)
        /\ pc = "backoff" =>
             (IsRateLimit(errObject) /\ thrown = NoError /\ result = NoBuild))
  /\ [][/\ (pc = "await" /\ IsRateLimit(errObject')) =>
             /\ pc' = "backoff"
             /\ throttleCount' = throttleCount + 1
             /\ UNCHANGED <<thrown, result, failed>>
        /\ (pc = "backoff" /\ pc' # "backoff") =>
             (pc' = "await" /\ FetchesIssued)]_vars

\* Two consecutive rate-limit failures before any poll succeeded: the loop
\* is fetching again.
C32_Witness ==
  /\ pc = "await" /\ throttleCount = 2 /\ hist.polls = 0
  /\ statusReq = "pending" /\ thrown = NoError /\ result = NoBuild

\* A step that issues stop-build requests.
StopIssued == Len(stopReqs') > Len(stopReqs)

\* No stop-build request before startBuild has returned an id, and every
\* request is for the build that was started.
StopForStartedBuild ==
  StopIssued =>
    /\ remote.id \in BuildIds /\ pc \notin {"init", "starting"}
    /\ \A i \in (Len(stopReqs) + 1)..Len(stopReqs') :
         stopReqs'[i] = remote.id

\* C33 (as stated): stop-build requests are issued only for the in-flight
\* build: none before startBuild has returned an id, none after the poll
\* loop has returned or thrown.
C33_StopOnlyWhileRunning ==
  [][/\ StopForStartedBuild
     /\ StopIssued => pc \notin {"returned", "thrown"}]_vars

\* C33 (amended): no stop-build request is issued before startBuild has
\* returned an id, and every request is for the started build; the handlers
\* are never removed, so a listed signal delivered after the loop has
\* returned or thrown issues a request as well.
C33_StopOnlyAfterStart ==
  [][/\ StopForStartedBuild
     /\ handlers # <<>> => handlers' = handlers
     /\ (signalLog'.count = signalLog.count + 1 /\ remote.id \in BuildIds
           /\ TimesListed(signalLog'.last) > 0) => StopIssued]_vars

\* The loop returned a build that succeeded; the handlers are still
\* installed and a stop-build request for that build is under way.
C33_Witness ==
  /\ pc = "returned" /\ result.buildStatus = "SUCCEEDED"
  /\ handlers # <<>> /\ stopPending > 0
  /\ stopReqs[Len(stopReqs)] = result.id

\* The result of logName is an error.
LogNameFailed == "error" \in DOMAIN names

\* C34 (as stated): logName fails with an InvalidFormat error when its
\* non-empty input lacks the ":log-group:" or the ":log-stream:" delimiter,
\* and fails in no other case.
C34_FailsWithoutDelimiters ==
  (entry = "logName" /\ names # <<>>) =>
    (LogNameFailed <=> arnArg.kind \in {"group", "stream", "plain"})

\* C34 (amended): logName fails for no text: without ":log-stream:" it
\* returns what follows the last ":log-group:" (the whole input when that is
\* missing as well) as logGroupName and no logStreamName; without
\* ":log-group:" the text before ":log-stream:" is the logGroupName; both
\* are undefined when a part is "null".
C34_NeverFails ==
  (entry = "logName" /\ names # <<>>) =>
    /\ ~LogNameFailed
    /\ arnArg.kind \in {"group", "plain"} =>
         names = IF arnArg.G = <<"null">>
                 THEN [logGroupName |-> Undefined, logStreamName |-> Undefined]
                 ELSE [logGroupName |-> Some(arnArg.G),
                       logStreamName |-> Undefined]
    /\ arnArg.kind = "stream" =>
         names = IF arnArg.G = <<"null">> \/ arnArg.S = <<"null">>
                 THEN [logGroupName |-> Undefined, logStreamName |-> Undefined]
                 ELSE [logGroupName |-> Some(arnArg.G),
                       logStreamName |-> Some(arnArg.S)]

\* logName returned for a text without any delimiter: the text is the group
\* name.
C34_Witness ==
  /\ entry = "logName" /\ names # <<>>
  /\ arnArg.kind = "plain" /\ arnArg.G = <<"g", "/">>
  /\ names.logGroupName = Some(<<"g", "/">>)
  /\ names.logStreamName = Undefined

\* The remote URLs of RemoteUrls that githubInfo accepts: https:// or git@,
\* ending in ".git", with owner o and repository r as the last two path
\* elements.
WellFormedUrl ==
  /\ gitUrl # Undefined
  /\ StartsWith(gitUrl[1], repoHTTPS) \/ StartsWith(gitUrl[1], repoSSH)
  /\ SubSeq(gitUrl[1], Len(gitUrl[1]) - 7, Len(gitUrl[1]))
       = <<"/", "o", "/", "r", ".", "g", "i", "t">>
       \/ SubSeq(gitUrl[1], Len(gitUrl[1]) - 7, Len(gitUrl[1]))
            = <<":", "o", "/", "r", ".", "g", "i", "t">>

\* C35: in the command line tool githubInfo returns the last two path
\* elements of the remote's push URL as owner and repo, for https:// and
\* git@ URLs alike, and they form the sourceLocationOverride
\* https://github.com/<owner>/<repo>.git; any other URL format, or a path of
\* fewer than two elements, throws an "Unsupported format" error.
C35_OwnerRepoFromUrl ==
  entry = "local" =>
    /\ ppc = "params" =>
         /\ WellFormedUrl
         /\ inputs.owner = Some(<<"o">>) /\ inputs.repo = Some(<<"r">>)
         /\ params.sourceLocationOverride =
              Some(<<"https://github.com/", "o", "/", "r", ".git">>)
    /\ (ppc = "failed" /\ gitUrl # Undefined) =>
         /\ ~WellFormedUrl
         /\ thrown.message \in
              {"Unsupported format - not a valid HTTPS or SSH URL",
               "Unsupported format - could not find owner and repo in path"}
    /\ (ppc # "init" /\ gitUrl # Undefined /\ ~WellFormedUrl) => ppc = "failed"

\* The build has ended, so every later status reply carries an end time,
\* the loop is waiting for its fetches or sleeping after a poll, k events
\* were received so far, and the two polls the loop needs at most are within
\* the limit of the run.
CalmPoint(k) ==
  /\ remote.buildStatus \in TerminalStatuses
  /\ Len(hist.received) = k
  /\ \/ pc = "await" /\ statusFetches + 1 <= limit.fetches
     \/ pc = "sleep" /\ statusFetches + 2 <= limit.fetches

\* The run was not calm: a fetch failed (the loop threw, or backs off after
\* a rate-limit failure), or a poll delivered events.
Disturbed(k) ==
  \/ pc \in {"thrown", "backoff"}
  \/ Len(hist.received) > k

LateSettle == staleStatus' < staleStatus \/ staleLog' < staleLog

\* C37 (as stated): the outcome of a failed iteration does not depend on the
\* order in which its two fetches complete: a non-rate-limit error of one
\* fetch aborts the loop even when the other fetch of the iteration fails
\* with "Rate exceeded"; so no such error is ever passed over while the loop
\* goes on.
C37_OrderIndependent ==
  [][discarded' # discarded => pc = "thrown"]_vars

\* C37 (amended): the failure that settles first decides: a rate-limit error
\* makes the loop back off and retry, any other error aborts it with that
\* error; whatever the other fetch of the iteration does afterwards, reply
\* or error of either kind, changes neither the position nor the outcome of
\* the loop.
C37_FirstFailureDecides ==
  [][/\ (pc = "await" /\ errObject' # NoError) =>
          IF IsRateLimit(errObject')
          THEN pc' = "backoff" /\ thrown' = thrown
          ELSE pc' = "thrown" /\ thrown' = errObject'
     /\ LateSettle =>
          UNCHANGED <<pc, thrown, loopVars, waitMs, result, out, failed,
                      errObject>>]_vars

\* The status fetch failed with "Rate exceeded", the log fetch of the same
\* iteration then failed with another error, and the loop went on to return.
C37_Witness ==
  /\ pc = "returned" /\ thrown = NoError
  /\ discarded = {OtherError("getLogEvents")}
  /\ rateFailures = 1 /\ throttleCount = 1

\* The cursor of the log fetch just issued, as a position in the stream.
CursorIssued == IF reqToken' = Undefined THEN 0 ELSE reqToken'[1]

\* C38: with getLogEvents returning the events that follow the cursor it is
\* given, no log event is lost or emitted twice over a run: the lines
\* printed are the events of the stream from the first on, one line each in
\* order, and every log fetch asks for the events after the last one
\* printed. When the status fetch is rate limited while the log fetch of the
\* same iteration succeeded, the batch is dropped without being printed and
\* the retry fetches from the same cursor.
C38_NoEventLostOrRepeated ==
  /\ [](\A i \in 1..Len(out) : RightTrimOf(out[i], LogEvent(i)))
  /\ [][/\ logFetches' = logFetches + 1 => CursorIssued = Len(out')
        /\ (pc = "await" /\ IsRateLimit(errObject')) =>
             /\ out' = out
             /\ nextToken' = nextToken
             /\ pc' = "backoff"
        /\ (pc = "backoff" /\ logFetches' = logFetches + 1) =>
             reqToken' = reqToken]_vars

\* The log fetch delivered events, the status fetch of the same iteration
\* failed with "Rate exceeded", and nothing was printed.
C38_Witness ==
  /\ pc = "backoff" /\ statusReq = "failed" /\ logReq = "done"
  /\ cloudWatch[1].events # <<>> /\ out = <<>>

\* Signal s is one of stop-on-signals.
Listed(s) == \E i \in 1..Len(stopOnSignals) : stopOnSignals[i] = s

\* C39: build() installs the signal handlers after startBuild has resolved
\* and before the first status or log fetch is issued: handlers exist only
\* for a started build, they are installed in the step that ends the wait
\* for startBuild, with no fetch issued before, and from the first fetch on
\* every listed signal has handlers, all bound to the id of the started
\* build, so a listed signal delivered while the loop polls issues a stop
\* request for that id.
C39_HandlersBeforeFirstFetch ==
  /\ [](handlers # <<>> => remote.id \in BuildIds /\ startCalls = 1)
  /\ []((statusFetches > 0 \/ logFetches > 0) =>
          \A s \in Signals :
            Listed(s) =>
              /\ HandlersFor(s) # <<>>
              /\ \A i \in 1..Len(HandlersFor(s)) :
                   HandlersFor(s)[i].id = remote.id)
  /\ [][/\ handlers' # handlers =>
             pc = "starting" /\ statusFetches = 0 /\ logFetches = 0
        /\ (/\ signalLog'.count > signalLog.count
            /\ pc \in {"await", "sleep", "backoff"}
            /\ Listed(signalLog'.last)) =>
             StopIssued /\ stopReqs'[Len(stopReqs')] = id]_vars

\* A listed signal arrived while the first fetches were outstanding and a
\* stop request for the started build was issued.
C39_Witness ==
  /\ pc = "await" /\ statusFetches = 1 /\ statusReq = "pending"
  /\ hist.polls = 0 /\ signalLog.count = 1 /\ Listed(signalLog.last)
  /\ stopReqs = <<remote.id>> /\ remote.id \in BuildIds

\* The positions of the commas of raw, in order, between 0 and Len(raw) + 1.
Cuts(raw) ==
  <<0>> \o SelectSeq([i \in 1..Len(raw) |-> i], LAMBDA i : raw[i] = ",")
    \o <<Len(raw) + 1>>

\* The j-th comma-separated item of raw.
Item(raw, j) == SubSeq(raw, Cuts(raw)[j] + 1, Cuts(raw)[j + 1] - 1)

\* x is text m without the whitespace at its two ends.
Stripped(x, m) ==
  \E a \in 1..(Len(m) + 1), b \in 0..Len(m) :
    /\ x = SubSeq(m, a, b)
    /\ \A i \in 1..Len(m) : (i < a \/ i > b) => m[i] \in Whitespace
    /\ x # <<>> => x[1] \notin Whitespace /\ x[Len(x)] \notin Whitespace

\* list is the list of the items of raw, in order, each without the
\* whitespace at its ends, the items that are empty then being left out.
ItemsOf(list, raw) ==
  LET n == Len(Cuts(raw)) - 1
      kept == SelectSeq([j \in 1..n |-> j],
                        LAMBDA j : ~Stripped(<<>>, Item(raw, j)))
  IN  /\ Len(list) = Len(kept)
      /\ \A k \in 1..Len(kept) : Stripped(list[k], Item(raw, kept[k]))

\* C40: githubInputs turns the comma-separated inputs env-vars-for-codebuild
\* and stop-on-signals into the list of their items in order, each trimmed
\* of the whitespace around it (newlines included), empty items dropped; an
\* empty input gives the empty list.
C40_ListInputs ==
  (entry = "runBuild" /\ ppc \in {"inputs", "params"}) =>
    /\ ItemsOf(inputs.envPassthrough, getInput["env-vars-for-codebuild"])
    /\ ItemsOf(inputs.stopOnSignals, getInput["stop-on-signals"])
    /\ getInput["env-vars-for-codebuild"] = <<>> =>
         inputs.envPassthrough = <<>>
    /\ getInput["stop-on-signals"] = <<>> => inputs.stopOnSignals = <<>>

\* An input with newlines around its items and an item of whitespace only
\* gave the two names.
C40_Witness ==
  /\ entry = "runBuild" /\ ppc = "inputs"
  /\ getInput["env-vars-for-codebuild"] =
       <<"FOO", " ", "\n", ",", " ", ",", "\n", "BAR">>
  /\ inputs.envPassthrough = << <<"FOO">>, <<"BAR">> >>
  /\ inputs.stopOnSignals = << <<"SIGINT">>, <<"SIGTERM">> >>

====
